---- MODULE Spec2Model ----
(***************************************************************************)
(* Model of the retrieval and ranking core of nocaap:                      *)
(*   src/core/fusion.ts         reciprocalRankFusion, normalizeScores      *)
(*   src/core/search-engine.ts  SearchEngine (createIndex, saveIndex,      *)
(*                              loadIndex, search, hybridSearch)           *)
(*   src/core/vector-store.ts   VectorStore (initialize, createIndex,      *)
(*                              search, getMetadata)                       *)
(*                                                                         *)
(* JavaScript numbers that carry scores are modelled as exact rationals    *)
(* [n, d] in lowest terms: the arithmetic of the code (+, *, /, Math.max,  *)
(* comparison) is carried out exactly, IEEE-754 rounding is not modelled.  *)
(* Strings whose characters the code inspects (paths, query words) are     *)
(* sequences of one-character strings.                                     *)
(***************************************************************************)
EXTENDS Integers, Sequences, FiniteSets, TLC

\* ------------------------------------------------------------------------
\* Bounds of the model
\* ------------------------------------------------------------------------

\* Longest result list handed to a direct reciprocalRankFusion / normalizeScores call.
MaxLen == 3

\* ------------------------------------------------------------------------
\* Numbers: exact rationals
\* ------------------------------------------------------------------------

RECURSIVE GCD(_, _)
GCD(a, b) == IF b = 0 THEN a ELSE GCD(b, a % b)

Abs(a) == IF a < 0 THEN -a ELSE a

\* The number n/d (d # 0) in lowest terms with a positive denominator.
Rat(n, d) ==
  LET g == GCD(Abs(n), Abs(d))
      s == IF d < 0 THEN -1 ELSE 1
  IN [n |-> s * (n \div g), d |-> s * (d \div g)]

RInt(i) == [n |-> i, d |-> 1]

Zero == RInt(0)

One == RInt(1)

\* x + y
RAdd(x, y) ==
  LET g == GCD(x.d, y.d)
      l == (x.d \div g) * y.d
  IN Rat(x.n * (l \div x.d) + y.n * (l \div y.d), l)

\* x * y (cross-reduced first, so that intermediate products stay small)
RMul(x, y) ==
  LET g1 == GCD(Abs(x.n), y.d)
      g2 == GCD(Abs(y.n), x.d)
      h1 == IF g1 = 0 THEN 1 ELSE g1
      h2 == IF g2 = 0 THEN 1 ELSE g2
  IN Rat((x.n \div h1) * (y.n \div h2), (x.d \div h2) * (y.d \div h1))

\* x / y for y # 0
RDiv(x, y) == RMul(x, Rat(y.d, y.n))

\* a/b < c/d for a, c >= 0 and b, d > 0, by the Euclidean expansion of both
\* (no product is formed, so no intermediate value leaves the integer range).
RECURSIVE FracLess(_, _, _, _)
FracLess(a, b, c, d) ==
  LET q1 == a \div b
      q2 == c \div d
      r1 == a % b
      r2 == c % d
  IN IF q1 # q2 THEN q1 < q2
     ELSE IF r2 = 0 THEN FALSE
     ELSE IF r1 = 0 THEN TRUE
     ELSE FracLess(d, r2, b, r1)

\* x < y
RLess(x, y) ==
  IF x.n < 0 /\ y.n >= 0 THEN TRUE
  ELSE IF x.n >= 0 /\ y.n < 0 THEN FALSE
  ELSE IF x.n >= 0 THEN FracLess(x.n, x.d, y.n, y.d)
  ELSE FracLess(-y.n, y.d, -x.n, x.d)

RLeq(x, y) == ~RLess(y, x)

\* Math.max(...scores) of a non-empty sequence of numbers
RECURSIVE MathMax(_)
MathMax(xs) ==
  IF Len(xs) = 1 THEN xs[1]
  ELSE LET m == MathMax(Tail(xs))
       IN IF RLess(xs[1], m) THEN m ELSE xs[1]

\* ------------------------------------------------------------------------
\* Documents
\* ------------------------------------------------------------------------

\* The indexed chunks of the model's corpus, as OramaDocument / VectorChunk
\* records. Paths are character sequences: the boosts inspect their characters.
ChunkReadme ==
  [id |-> "API/README.md#0", content |-> "api overview", package |-> "p1",
   title |-> "API", headings |-> <<"API">>,
   path |-> <<"A","P","I","/","R","E","A","D","M","E",".","m","d">>]

ChunkAuth ==
  [id |-> "api/auth.md#0", content |-> "auth tokens", package |-> "p1",
   title |-> "Auth", headings |-> <<"Auth", "Tokens">>,
   path |-> <<"a","p","i","/","a","u","t","h",".","m","d">>]

ChunkHowto ==
  [id |-> "howto/index.md#0", content |-> "questions", package |-> "p2",
   title |-> "How to", headings |-> <<"How to">>,
   path |-> <<"h","o","w","t","o","/","i","n","d","e","x",".","m","d">>]

Corpus == <<ChunkReadme, ChunkAuth, ChunkHowto>>

Packages == {"p1", "p2"}

\* A RankedResult {id, content, path, package, title, score} for a chunk.
RankedResult(c, score) ==
  [id |-> c.id, content |-> c.content, path |-> c.path,
   package |-> c.package, title |-> c.title, score |-> score]

\* ------------------------------------------------------------------------
\* fusion.ts: reciprocalRankFusion
\* ------------------------------------------------------------------------

\* const { k = 60, fulltextWeight = 0.4, vectorWeight = 0.6 } = options
DefaultK == 60

DefaultFulltextWeight == Rat(4, 10)

DefaultVectorWeight == Rat(6, 10)

\* An RRFOptions object is a function on a subset of these keys; a key that is
\* missing takes its default.
OptK(options) == IF "k" \in DOMAIN options THEN options["k"] ELSE DefaultK

OptFulltextWeight(options) ==
  IF "fulltextWeight" \in DOMAIN options THEN options["fulltextWeight"]
  ELSE DefaultFulltextWeight

OptVectorWeight(options) ==
  IF "vectorWeight" \in DOMAIN options THEN options["vectorWeight"]
  ELSE DefaultVectorWeight

\* Faulty variant of RRFScore: the 0-based index is used as the rank.
RRFScoreZeroBased(weight, k, rank) ==
  RMul(weight, RDiv(One, RInt(k + rank)))

\* const rrfScore = weight * (1 / (k + rank + 1)), rank being forEach's 0-based index
RRFScore(weight, k, rank) ==
  RMul(weight, RDiv(One, RInt(k + rank + 1)))

\* scores.get(id): the position of id's entry in the Map (insertion order), 0 if none
MapIndex(scores, id) ==
  IF \E i \in 1..Len(scores) : scores[i].doc.id = id
  THEN CHOOSE i \in 1..Len(scores) : scores[i].doc.id = id
  ELSE 0

\* existing.sources[src] = rank: sets or overwrites one key of the sources object
SetSource(sources, src, rank) ==
  [x \in DOMAIN sources \cup {src} |-> IF x = src THEN rank ELSE sources[x]]

\* Faulty variant of Accumulate: an id that is already in the Map is overwritten by a
\* fresh entry instead of being added to.
AccumulateOverwrite(scores, doc, rank, src, weight, k) ==
  LET rrfScore == RRFScore(weight, k, rank)
      pos == MapIndex(scores, doc.id)
      fresh == [score |-> rrfScore, doc |-> doc, sources |-> SetSource(<<>>, src, rank + 1)]
  IN IF pos # 0 THEN [scores EXCEPT ![pos] = fresh] ELSE Append(scores, fresh)

\* Faulty variant of Accumulate: every result is appended as an entry of its own.
AccumulateAppend(scores, doc, rank, src, weight, k) ==
  Append(scores, [score |-> RRFScore(weight, k, rank), doc |-> doc,
                  sources |-> SetSource(<<>>, src, rank + 1)])

\* The body of the forEach callbacks: one result of one list enters the Map.
Accumulate(scores, doc, rank, src, weight, k) ==
  LET rrfScore == RRFScore(weight, k, rank)
      pos == MapIndex(scores, doc.id)
  IN IF pos # 0
     THEN [scores EXCEPT ![pos].score = RAdd(@, rrfScore),
                         ![pos].sources = SetSource(@, src, rank + 1)]
     ELSE Append(scores, [score |-> rrfScore, doc |-> doc,
                          sources |-> SetSource(<<>>, src, rank + 1)])

\* results.forEach((doc, rank) => ...) from index i on
RECURSIVE ProcessResults(_, _, _, _, _, _)
ProcessResults(scores, results, i, src, weight, k) ==
  IF i > Len(results) THEN scores
  ELSE ProcessResults(Accumulate(scores, results[i], i - 1, src, weight, k),
                      results, i + 1, src, weight, k)

\* Faulty variant of InsertDesc: ascending order.
InsertAsc(sorted, x) ==
  LET before == {i \in 1..Len(sorted) : RLeq(sorted[i].score, x.score)}
      n == Cardinality(before)
  IN SubSeq(sorted, 1, n) \o <<x>> \o SubSeq(sorted, n + 1, Len(sorted))

\* One step of the stable sort by (a, b) => b.score - a.score: x goes behind
\* every element whose score is not below its own.
InsertDesc(sorted, x) ==
  LET before == {i \in 1..Len(sorted) : RLeq(x.score, sorted[i].score)}
      n == Cardinality(before)
  IN SubSeq(sorted, 1, n) \o <<x>> \o SubSeq(sorted, n + 1, Len(sorted))

\* xs.sort((a, b) => b.score - a.score): Array.prototype.sort is stable
RECURSIVE SortByScoreDesc(_)
SortByScoreDesc(xs) ==
  IF Len(xs) = 0 THEN <<>>
  ELSE InsertDesc(SortByScoreDesc(SubSeq(xs, 1, Len(xs) - 1)), xs[Len(xs)])

\* .map(({ doc, score, sources }) => ({ id: doc.id, ..., score, sources }))
FusionResult(entry) ==
  [id |-> entry.doc.id, content |-> entry.doc.content, path |-> entry.doc.path,
   package |-> entry.doc.package, title |-> entry.doc.title,
   score |-> entry.score, sources |-> entry.sources]

reciprocalRankFusion(fulltextResults, vectorResults, options) ==
  LET k == OptK(options)
      afterFulltext == ProcessResults(<<>>, fulltextResults, 1, "fulltext",
                                      OptFulltextWeight(options), k)
      scores == ProcessResults(afterFulltext, vectorResults, 1, "vector",
                               OptVectorWeight(options), k)
      sorted == SortByScoreDesc(scores)
  IN [i \in 1..Len(sorted) |-> FusionResult(sorted[i])]

\* ------------------------------------------------------------------------
\* fusion.ts: normalizeScores
\* ------------------------------------------------------------------------

\* Faulty variant of normalizeScores: divides by the first score, not by the maximum.
normalizeScoresByFirst(results) ==
  IF Len(results) = 0 THEN results
  ELSE IF results[1].score = Zero THEN results
  ELSE [i \in 1..Len(results) |->
          [results[i] EXCEPT !.score = RDiv(@, results[1].score)]]

\* Faulty variant of normalizeScores: a list whose maximum is 0 is answered by the empty list.
normalizeScoresDropZero(results) ==
  IF Len(results) = 0 THEN results
  ELSE LET maxScore == MathMax([i \in 1..Len(results) |-> results[i].score])
       IN IF maxScore = Zero THEN <<>>
          ELSE [i \in 1..Len(results) |->
                  [results[i] EXCEPT !.score = RDiv(@, maxScore)]]

normalizeScores(results) ==
  IF Len(results) = 0 THEN results
  ELSE LET maxScore == MathMax([i \in 1..Len(results) |-> results[i].score])
       IN IF maxScore = Zero THEN results
          ELSE [i \in 1..Len(results) |->
                  [results[i] EXCEPT !.score = RDiv(@, maxScore)]]

\* ------------------------------------------------------------------------
\* search-engine.ts: query processing helpers
\* ------------------------------------------------------------------------

UpperCase == <<"A","B","C","D","E","F","G","H","I","J","K","L","M",
               "N","O","P","Q","R","S","T","U","V","W","X","Y","Z">>

LowerCase == <<"a","b","c","d","e","f","g","h","i","j","k","l","m",
               "n","o","p","q","r","s","t","u","v","w","x","y","z">>

ToLowerChar(c) ==
  IF \E i \in 1..Len(UpperCase) : UpperCase[i] = c
  THEN LowerCase[CHOOSE i \in 1..Len(UpperCase) : UpperCase[i] = c]
  ELSE c

\* String.prototype.toLowerCase
toLowerCase(str) == [i \in 1..Len(str) |-> ToLowerChar(str[i])]

\* String.prototype.includes
includes(str, sub) ==
  \E i \in 1..(Len(str) - Len(sub) + 1) : SubSeq(str, i, i + Len(sub) - 1) = sub

\* String.prototype.endsWith
endsWith(str, suffix) ==
  /\ Len(suffix) <= Len(str)
  /\ SubSeq(str, Len(str) - Len(suffix) + 1, Len(str)) = suffix

\* Stop words to exclude from path matching
STOP_WORDS ==
  {<<"w","h","a","t">>,
   <<"i","s">>,
   <<"t","h","e">>,
   <<"a">>,
   <<"a","n">>,
   <<"h","o","w">>,
   <<"d","o">>,
   <<"d","o","e","s">>,
   <<"a","r","e">>,
   <<"w","a","s">>,
   <<"w","e","r","e">>,
   <<"b","e","e","n">>,
   <<"b","e","i","n","g">>,
   <<"h","a","v","e">>,
   <<"h","a","s">>,
   <<"h","a","d">>,
   <<"h","a","v","i","n","g">>,
   <<"w","h","o">>,
   <<"w","h","i","c","h">>,
   <<"w","h","e","r","e">>,
   <<"w","h","e","n">>,
   <<"w","h","y">>,
   <<"c","a","n">>,
   <<"c","o","u","l","d">>,
   <<"w","o","u","l","d">>,
   <<"s","h","o","u","l","d">>,
   <<"o","f">>,
   <<"o","n">>,
   <<"i","n">>,
   <<"t","o">>,
   <<"f","o","r">>,
   <<"w","i","t","h">>,
   <<"b","y">>,
   <<"f","r","o","m">>,
   <<"a","t">>,
   <<"a","b","o","u","t">>}

\* A query is the sequence of its whitespace-separated words (what
\* split(/\s+/) yields), each word a character sequence.
\* query.toLowerCase().split(/\s+/).filter(word => word.length > 2 && !STOP_WORDS.has(word))
extractQueryKeywords(query) ==
  SelectSeq([i \in 1..Len(query) |-> toLowerCase(query[i])],
            LAMBDA word : Len(word) > 2 /\ word \notin STOP_WORDS)

ReadmeMd == <<"r","e","a","d","m","e",".","m","d">>

IndexMd == <<"i","n","d","e","x",".","m","d">>

\* 15% boost per keyword match in path
KeywordBoostFactor == Rat(115, 100)

\* 25% boost for index documents
IndexBoostFactor == Rat(125, 100)

\* let boost = 1.0; for (const keyword of queryKeywords) if (pathLower.includes(keyword)) boost *= 1.15
RECURSIVE PathBoost(_, _, _)
PathBoost(pathLower, queryKeywords, i) ==
  IF i > Len(queryKeywords) THEN One
  ELSE LET rest == PathBoost(pathLower, queryKeywords, i + 1)
       IN IF includes(pathLower, queryKeywords[i])
          THEN RMul(KeywordBoostFactor, rest)
          ELSE rest

\* Faulty variant of ApplyPathBoost: one keyword match is enough, further matches add nothing.
ApplyPathBoostOnce(fused, queryKeywords) ==
  [i \in 1..Len(fused) |->
     [fused[i] EXCEPT !.score =
        IF \E j \in 1..Len(queryKeywords) :
             includes(toLowerCase(fused[i].path), queryKeywords[j])
        THEN RMul(@, KeywordBoostFactor) ELSE @]]

\* The first loop over fused: result.score *= boost
ApplyPathBoost(fused, queryKeywords) ==
  [i \in 1..Len(fused) |->
     [fused[i] EXCEPT !.score =
        RMul(@, PathBoost(toLowerCase(fused[i].path), queryKeywords, 1))]]

IsIndexDocument(path) ==
  LET pathLower == toLowerCase(path)
  IN endsWith(pathLower, ReadmeMd) \/ endsWith(pathLower, IndexMd)

\* Faulty variant of ApplyIndexBoost: the boost is added, not multiplied.
ApplyIndexBoostAdditive(fused) ==
  [i \in 1..Len(fused) |->
     [fused[i] EXCEPT !.score =
        IF IsIndexDocument(fused[i].path)
        THEN RAdd(@, RAdd(IndexBoostFactor, RInt(-1))) ELSE @]]

\* The second loop over fused: result.score *= 1.25 for README.md / index.md
ApplyIndexBoost(fused) ==
  [i \in 1..Len(fused) |->
     [fused[i] EXCEPT !.score =
        IF IsIndexDocument(fused[i].path) THEN RMul(@, IndexBoostFactor) ELSE @]]

\* ------------------------------------------------------------------------
\* State
\* ------------------------------------------------------------------------

VARIABLES
  db,                \* SearchEngine.db: None (null) or Some(documents of the Orama database)
  metadata,          \* SearchEngine.metadata: None or Some(IndexMetadata)
  vectorStore,       \* SearchEngine.vectorStore: None or Some(VectorStore with an open table)
  projectRoot,       \* SearchEngine.projectRoot: None or Some(root)
  embeddingProvider, \* SearchEngine.embeddingProvider
  indexFile,         \* .context/index.orama.json: None (no file) or Some(StoredIndex)
  vectorDir,         \* the vector index directory: None or Some(rows of table 'chunks')
  vectorMetaFile,    \* the vector metadata file: None or Some(StoredVectorMetadata)
  ret                \* the last call: its arguments and what it returned or threw

engine == <<db, metadata, vectorStore, projectRoot, embeddingProvider>>

disk == <<indexFile, vectorDir, vectorMetaFile>>

vars == <<db, metadata, vectorStore, projectRoot, embeddingProvider,
          indexFile, vectorDir, vectorMetaFile, ret>>

\* The calls of the model are made one after the other: ret = Idle when no
\* call's result is waiting for the caller.
Idle == [op |-> "idle", status |-> "ok"]

\* null / undefined, and a value that is present
None == <<>>

Some(x) == <<x>>

\* ------------------------------------------------------------------------
\* Bounds and input sets of the calls
\* ------------------------------------------------------------------------

\* Most words in a query.
MaxQueryWords == 2

\* Largest `limit` passed to hybridSearch.
MaxLimit == 2

WordAPI == <<"A","P","I">>

WordAuth == <<"a","u","t","h">>

WordHow == <<"H","o","w">>

WordMd == <<"m","d">>

Vocabulary == {WordAPI, WordAuth, WordHow, WordMd}

Queries == UNION {[1..n -> Vocabulary] : n \in 0..MaxQueryWords}

ModeOptions == {None, Some("fulltext"), Some("semantic"), Some("hybrid")}

PackageOptions == {None, Some({}), Some({"p1"}), Some({"p2"})}

EmbeddingProviders == {"ollama"}

Min(a, b) == IF a < b THEN a ELSE b

\* The sequences without repetition over S of length at most n.
InjectiveSeqs(S, n) ==
  UNION {{q \in [1..m -> S] : \A i, j \in 1..m : i # j => q[i] # q[j]} :
           m \in 0..Min(n, Cardinality(S))}

Range(q) == {q[i] : i \in 1..Len(q)}

\* ------------------------------------------------------------------------
\* search-engine.ts: SearchEngine.search, vector-store.ts: VectorStore.search
\* ------------------------------------------------------------------------

\* Default search limit
DEFAULT_LIMIT == 10

\* The where clause built from `packages`: an absent or empty list filters nothing.
MatchesWhere(doc, packages) ==
  \/ packages = None
  \/ packages[1] = {}
  \/ doc.package \in packages[1]

\* results.hits.map(hit => ({id, content, path, package, headings, title, score: hit.score})).
\* Orama's relevance score is modelled as descending with the rank.
SearchResults(hits) ==
  [i \in 1..Len(hits) |->
     [id |-> hits[i].id, content |-> hits[i].content, path |-> hits[i].path,
      package |-> hits[i].package, headings |-> hits[i].headings,
      title |-> hits[i].title, score |-> RInt(Len(hits) - i + 1)]]

\* What Orama's search(db, {term, properties, limit, where}) can return: at
\* most `limit` distinct documents that pass the where clause, in rank order.
SearchHitLists(documents, packages, limit) ==
  InjectiveSeqs({d \in Range(documents) : MatchesWhere(d, packages)}, limit)

\* results.map(r => ({..., score: r._distance ? 1 / (1 + r._distance) : 1})).
\* The distance of the i-th neighbour is modelled as i - 1.
VectorResults(rows) ==
  [i \in 1..Len(rows) |->
     [id |-> rows[i].id, content |-> rows[i].content, path |-> rows[i].path,
      package |-> rows[i].package, title |-> rows[i].title,
      score |-> IF i - 1 # 0 THEN RDiv(One, RAdd(One, RInt(i - 1))) ELSE One]]

\* What table.vectorSearch(queryVector).limit(limit).toArray() can return: the
\* `limit` nearest rows (all rows when there are fewer), in any order of nearness.
VectorRowLists(table, limit) ==
  {q \in InjectiveSeqs(Range(table), limit) : Len(q) = Min(limit, Len(table))}

\* ------------------------------------------------------------------------
\* search-engine.ts: SearchEngine.hybridSearch
\* ------------------------------------------------------------------------

LimitOptions == {None} \cup {Some(n) : n \in 1..MaxLimit}

\* const { query, mode = 'fulltext', packages, limit = DEFAULT_LIMIT } = options
ModeOf(mode) == IF mode = None THEN "fulltext" ELSE mode[1]

LimitOf(limit) == IF limit = None THEN DEFAULT_LIMIT ELSE limit[1]

\* Convert to RankedResult format for fusion
ToRanked(results) ==
  [i \in 1..Len(results) |->
     [id |-> results[i].id, content |-> results[i].content, path |-> results[i].path,
      package |-> results[i].package, title |-> results[i].title,
      score |-> results[i].score]]

\* Array.prototype.slice(0, n) for n >= 0
Slice(xs, n) == SubSeq(xs, 1, Min(n, Len(xs)))

\* Convert back to HybridSearchResult format
ToHybridResults(rs) ==
  [i \in 1..Len(rs) |->
     [id |-> rs[i].id, content |-> rs[i].content, path |-> rs[i].path,
      package |-> rs[i].package, headings |-> <<>>, title |-> rs[i].title,
      score |-> rs[i].score, sources |-> rs[i].sources]]

\* The semantic branch: vectorResults.map(r => ({..., headings: [], sources: { vector: 1 }}))
SemanticResults(vectorResults) ==
  [i \in 1..Len(vectorResults) |->
     [id |-> vectorResults[i].id, content |-> vectorResults[i].content,
      path |-> vectorResults[i].path, package |-> vectorResults[i].package,
      headings |-> <<>>, title |-> vectorResults[i].title,
      score |-> vectorResults[i].score, sources |-> [vector |-> 1]]]

\* RRF weight configuration - favor semantic search to reduce keyword noise
RRF_FULLTEXT_WEIGHT == Rat(4, 10)

RRF_VECTOR_WEIGHT == Rat(6, 10)

HybridRRFOptions ==
  [fulltextWeight |-> RRF_FULLTEXT_WEIGHT, vectorWeight |-> RRF_VECTOR_WEIGHT]

\* Apply path-based boost, then boost index documents
Boosted(fused, query) ==
  ApplyIndexBoost(ApplyPathBoost(fused, extractQueryKeywords(query)))

\* Faulty variant of Ranked: the list is cut, in the order of the fusion, before
\* it is sorted and normalized.
RankedCutFirst(boosted, limit) ==
  normalizeScores(SortByScoreDesc(Slice(boosted, limit)))

\* Re-sort after boosting, normalize, then slice(0, limit)
Ranked(boosted, limit) ==
  Slice(normalizeScores(SortByScoreDesc(boosted)), limit)

\* What a hybridSearch call records in ret.
Call(query, mode, packages, limit) ==
  [op |-> "hybridSearch", query |-> query, mode |-> mode,
   packages |-> packages, limit |-> limit]

Thrown(call, message) ==
  [op |-> call.op, query |-> call.query, mode |-> call.mode,
   packages |-> call.packages, limit |-> call.limit,
   status |-> "error", error |-> message,
   fulltextResults |-> <<>>, vectorResults |-> <<>>, fused |-> <<>>,
   boosted |-> <<>>, out |-> <<>>]

\* fused: what reciprocalRankFusion returned; boosted: the same array after the
\* two boost loops have updated its scores in place.
Returned(call, fulltextResults, vectorResults, fused, boosted, out) ==
  [op |-> call.op, query |-> call.query, mode |-> call.mode,
   packages |-> call.packages, limit |-> call.limit,
   status |-> "ok", error |-> "",
   fulltextResults |-> fulltextResults, vectorResults |-> vectorResults,
   fused |-> fused, boosted |-> boosted, out |-> out]

\* this.search({ query, packages, limit }) as the whole answer of hybridSearch
FulltextOutcomes(call, packages, limit) ==
  IF db = None
  THEN {Thrown(call, "Search engine not initialized")}
  ELSE {Returned(call, SearchResults(hits), <<>>, <<>>, <<>>, SearchResults(hits)) :
          hits \in SearchHitLists(db[1], packages, limit)}

\* Semantic-only mode, after the query embedding has been generated
SemanticOutcomes(call, limit) ==
  {Returned(call, <<>>, VectorResults(rows), <<>>, <<>>,
            SemanticResults(VectorResults(rows))) :
     rows \in VectorRowLists(vectorStore[1].table, limit)}

\* Hybrid mode: Promise.all of both searches, fusion, boosts, sort, normalize, cut
HybridOutcomes(call, query, packages, limit) ==
  IF db = None
  THEN {Thrown(call, "Search engine not initialized")}
  ELSE {LET fulltextResults == SearchResults(hits)
            vectorResults == VectorResults(rows)
            fused == reciprocalRankFusion(ToRanked(fulltextResults),
                                          ToRanked(vectorResults), HybridRRFOptions)
            boosted == Boosted(fused, query)
        IN Returned(call, fulltextResults, vectorResults, fused, boosted,
                    ToHybridResults(Ranked(boosted, limit))) :
          hits \in SearchHitLists(db[1], packages, limit * 2),
          rows \in VectorRowLists(vectorStore[1].table, limit * 2)}

\* Every way one hybridSearch call can end in the current state of the engine.
\* generateQueryEmbedding resolves or rejects.
hybridSearchOutcomes(query, modeOpt, packages, limitOpt) ==
  LET mode == ModeOf(modeOpt)
      limit == LimitOf(limitOpt)
      call == Call(query, mode, packages, limit)
  IN IF mode = "fulltext" THEN FulltextOutcomes(call, packages, limit)
     ELSE IF vectorStore = None
     THEN IF mode = "semantic"
          THEN {Thrown(call, "Vector search not available")}
          ELSE FulltextOutcomes(call, packages, limit)
     ELSE {Thrown(call, "embedding provider error")} \cup
          (IF mode = "semantic" THEN SemanticOutcomes(call, limit)
           ELSE HybridOutcomes(call, query, packages, limit))

HybridSearch ==
  \E query \in Queries, modeOpt \in ModeOptions, packages \in PackageOptions,
     limitOpt \in LimitOptions :
    /\ ret = Idle
    /\ ret' \in hybridSearchOutcomes(query, modeOpt, packages, limitOpt)
    /\ UNCHANGED <<engine, disk>>

\* ------------------------------------------------------------------------
\* search-engine.ts: createIndex, saveIndex, loadIndex; vector-store.ts: createIndex
\* ------------------------------------------------------------------------

\* Index version for future compatibility
INDEX_VERSION == "1.0.0"

\* The chunk lists an index is built from.
ChunkLists == {Corpus}

\* [...new Set(chunks.map(c => c.package))]: the packages in order of first occurrence
RECURSIVE UniquePackages(_)
UniquePackages(chunks) ==
  IF Len(chunks) = 0 THEN <<>>
  ELSE LET front == UniquePackages(SubSeq(chunks, 1, Len(chunks) - 1))
           pkg == chunks[Len(chunks)].package
       IN IF pkg \in Range(front) THEN front ELSE Append(front, pkg)

Done(op, value) == [op |-> op, status |-> "ok", value |-> value]

Failed(op, message) == [op |-> op, status |-> "error", error |-> message]

CreateIndexOf(chunkLists) ==
  \E chunks \in chunkLists :
    /\ ret = Idle
    /\ db' = Some(chunks)
    /\ metadata' = Some([version |-> INDEX_VERSION, chunkCount |-> Len(chunks),
                         packages |-> UniquePackages(chunks)])
    /\ ret' = Done("createIndex", Len(chunks))
    /\ UNCHANGED <<vectorStore, projectRoot, embeddingProvider, disk>>

CreateIndex == CreateIndexOf(ChunkLists)

\* A faulty saveIndex: the database is persisted before it is filled.
SaveIndexEmptyData ==
  /\ ret = Idle
  /\ IF db = None \/ metadata = None
     THEN /\ ret' = Failed("saveIndex", "No index to save")
          /\ UNCHANGED <<engine, disk>>
     ELSE /\ indexFile' = Some([metadata |-> metadata[1], data |-> <<>>])
          /\ ret' = Done("saveIndex", TRUE)
          /\ UNCHANGED <<engine, vectorDir, vectorMetaFile>>

SaveIndex ==
  /\ ret = Idle
  /\ IF db = None \/ metadata = None
     THEN /\ ret' = Failed("saveIndex", "No index to save")
          /\ UNCHANGED <<engine, disk>>
     ELSE /\ indexFile' = Some([metadata |-> metadata[1], data |-> db[1]])
          /\ ret' = Done("saveIndex", TRUE)
          /\ UNCHANGED <<engine, vectorDir, vectorMetaFile>>

\* The row buildVectorIndex stores for a chunk (its embedding vector is not modelled).
VectorChunk(c) ==
  [id |-> c.id, content |-> c.content, path |-> c.path,
   package |-> c.package, title |-> c.title]

\* VectorStore.createIndex as run by buildVectorIndex on a store of its own:
\* the directory is replaced by a new table and the metadata file is written.
BuildVectorIndex ==
  \E chunks \in ChunkLists, provider \in EmbeddingProviders :
    /\ ret = Idle
    /\ vectorDir' = Some([i \in 1..Len(chunks) |-> VectorChunk(chunks[i])])
    /\ vectorMetaFile' = Some([embedding |-> [provider |-> provider],
                               chunkCount |-> Len(chunks)])
    /\ ret' = Done("buildVectorIndex", provider)
    /\ UNCHANGED <<engine, indexFile>>

\* loadIndex: readOk says whether fs.readJson and restore succeed. On a stored
\* index without metadata this.db is assigned, this.metadata becomes
\* undefined, reading this.metadata.chunkCount throws, and the catch returns
\* false before initializeVectorStore has run.
\* What loadIndex returned, and whether the file system and restore worked
\* for it.
Loaded(value, readOk) ==
  [op |-> "loadIndex", status |-> "ok", value |-> value, readOk |-> readOk]

LoadIndex ==
  \E readOk \in BOOLEAN :
    /\ ret = Idle
    /\ projectRoot' = Some("root")
    /\ IF indexFile = None \/ ~readOk
       THEN /\ ret' = Loaded(FALSE, readOk)
            /\ UNCHANGED <<db, metadata, vectorStore, embeddingProvider, disk>>
       ELSE IF "metadata" \notin DOMAIN indexFile[1]
       THEN /\ db' = Some(indexFile[1].data)
            /\ metadata' = None
            /\ ret' = Loaded(FALSE, readOk)
            /\ UNCHANGED <<vectorStore, embeddingProvider, disk>>
       ELSE /\ db' = Some(indexFile[1].data)
            /\ metadata' = Some(indexFile[1].metadata)
            \* initializeVectorStore
            /\ IF vectorDir # None
               THEN /\ vectorStore' = Some([table |-> vectorDir[1]])
                    /\ embeddingProvider' =
                         IF vectorMetaFile # None
                         THEN vectorMetaFile[1].embedding.provider
                         ELSE embeddingProvider
               ELSE /\ vectorStore' = None
                    /\ UNCHANGED embeddingProvider
            /\ ret' = Loaded(TRUE, readOk)
            /\ UNCHANGED disk

\* ------------------------------------------------------------------------
\* Direct calls of the functions fusion.ts exports
\* ------------------------------------------------------------------------

\* The option objects passed to reciprocalRankFusion.
RRFOptionSet ==
  {<<>>,
   [k |-> 1],
   [fulltextWeight |-> Rat(8, 10), vectorWeight |-> Rat(2, 10)],
   [fulltextWeight |-> Zero, vectorWeight |-> Zero]}

\* The result lists passed to reciprocalRankFusion: any documents, an id may repeat.
RankedLists ==
  UNION {{[i \in 1..n |-> RankedResult(q[i], Rat(1, i))] : q \in [1..n -> Range(Corpus)]} :
           n \in 0..MaxLen}

CallRRF ==
  \E fulltextResults \in RankedLists, vectorResults \in RankedLists,
     options \in RRFOptionSet :
    /\ ret = Idle
    /\ ret' = [op |-> "reciprocalRankFusion", status |-> "ok",
               fulltextResults |-> fulltextResults, vectorResults |-> vectorResults,
               options |-> options,
               out |-> reciprocalRankFusion(fulltextResults, vectorResults, options)]
    /\ UNCHANGED <<engine, disk>>

\* The scores of the lists passed to normalizeScores.
NormScores == {Zero, Rat(1, 3), RInt(50), RInt(100)}

SourcesOf(c) ==
  IF c = ChunkReadme THEN [fulltext |-> 1]
  ELSE IF c = ChunkAuth THEN [fulltext |-> 1, vector |-> 2]
  ELSE [vector |-> 1]

NormItems ==
  {[id |-> c.id, content |-> c.content, path |-> c.path, package |-> c.package,
    title |-> c.title, score |-> x, sources |-> SourcesOf(c)] :
     c \in Range(Corpus), x \in NormScores}

CallNormalize ==
  \E results \in UNION {[1..n -> NormItems] : n \in 0..MaxLen} :
    /\ ret = Idle
    /\ ret' = [op |-> "normalizeScores", status |-> "ok",
               results |-> results, out |-> normalizeScores(results)]
    /\ UNCHANGED <<engine, disk>>

\* ------------------------------------------------------------------------
\* A process that starts on the index files of an earlier one
\* ------------------------------------------------------------------------

\* new SearchEngine(): the field initializers; the files stay as they are.
NewSearchEngine ==
  /\ ret = Idle
  /\ db' = None
  /\ metadata' = None
  /\ vectorStore' = None
  /\ projectRoot' = None
  /\ embeddingProvider' = "auto"
  /\ ret' = Done("new SearchEngine", TRUE)
  /\ UNCHANGED disk

\* ------------------------------------------------------------------------
\* Index artefacts left by a failure
\* ------------------------------------------------------------------------

\* The index file is written by something other than saveIndex: a stored
\* index that holds the database but no metadata.
IndexFileReplaced ==
  /\ ret = Idle
  /\ indexFile' = Some([data |-> Corpus])
  /\ UNCHANGED <<engine, vectorDir, vectorMetaFile, ret>>

\* The steps of buildVectorIndex that can fail.
BuildSteps == {"embed", "table", "metadata"}

\* buildVectorIndex when a step fails: generateEmbeddings rejects and nothing
\* is written; or VectorStore.createIndex throws after fs.remove, leaving no
\* table; or it throws in fs.writeJson, leaving the new table beside the
\* metadata file as it was.
BuildVectorIndexFails ==
  \E chunks \in ChunkLists, step \in BuildSteps :
    /\ ret = Idle
    /\ vectorDir' =
         IF step = "embed" THEN vectorDir
         ELSE IF step = "table" THEN None
         ELSE Some([i \in 1..Len(chunks) |-> VectorChunk(chunks[i])])
    /\ ret' = Failed("buildVectorIndex", step)
    /\ UNCHANGED <<engine, indexFile, vectorMetaFile>>

\* ------------------------------------------------------------------------
\* search-engine.ts: SearchEngine.search called by a client
\* ------------------------------------------------------------------------

\* The arguments of the queries that are followed step by step.
StepQueries == {<<>>, <<WordAPI>>}

StepPackageOptions == {None, Some({"p2"})}

StepLimitOptions == {None, Some(1)}

SearchCall(query, packages, limit) ==
  [query |-> query, packages |-> packages, limit |-> limit]

\* SearchEngine.search: throws without a database, else maps the hits of
\* Orama, or passes on what Orama throws.
SearchOutcomes(call) ==
  IF db = None
  THEN {[status |-> "error", error |-> "Search engine not initialized", out |-> <<>>]}
  ELSE {[status |-> "ok", error |-> "", out |-> SearchResults(hits)] :
          hits \in SearchHitLists(db[1], call.packages, call.limit)}
       \cup {[status |-> "error", error |-> "search failed", out |-> <<>>]}

Search ==
  \E query \in StepQueries, packages \in StepPackageOptions,
     limitOpt \in StepLimitOptions :
    /\ ret = Idle
    /\ \E o \in SearchOutcomes(SearchCall(query, packages, LimitOf(limitOpt))) :
         ret' = [op |-> "search", query |-> query, packages |-> packages,
                 limit |-> LimitOf(limitOpt), status |-> o.status,
                 error |-> o.error, out |-> o.out]
    /\ UNCHANGED <<engine, disk>>

\* ------------------------------------------------------------------------
\* search-engine.ts: SearchEngine.hybridSearch, await by await
\* ------------------------------------------------------------------------

\* detectProvider(): Ollama if it answers, else OpenAI if a key is set, else tfjs
DetectableProviders == {"ollama", "openai", "tfjs"}

\* A search hybridSearch has not called.
NotCalled == [state |-> "none", call |-> None]

\* A hybridSearch call that has been entered: the destructured options, and
\* what the call has requested and received so far.
Entered(query, modeOpt, packages, limitOpt) ==
  [op |-> "hybridSearch", status |-> "pending", error |-> "",
   query |-> query, modeGiven |-> modeOpt, mode |-> ModeOf(modeOpt),
   packages |-> packages, limit |-> LimitOf(limitOpt),
   embedding |-> "none", embedCalls |-> 0, embedProvider |-> None,
   lexical |-> NotCalled, vector |-> NotCalled,
   fulltextResults |-> <<>>, vectorResults |-> <<>>, fused |-> <<>>,
   boosted |-> <<>>, out |-> <<>>]

\* The promise of hybridSearch rejects.
Rejected(q, message) == [q EXCEPT !.status = "error", !.error = message]

\* The promise of hybridSearch resolves.
Resolved(q, fused, boosted, out) ==
  [q EXCEPT !.status = "ok", !.fused = fused, !.boosted = boosted, !.out = out]

\* this.search({ query, packages, limit }) is called: without a database its
\* promise is rejected at once, else the Orama search is under way.
StartLexical(q, limit) ==
  LET call == Some(SearchCall(q.query, q.packages, limit))
  IN IF db = None
     THEN [q EXCEPT !.lexical = [state |-> "failed", call |-> call],
                    !.error = "Search engine not initialized"]
     ELSE [q EXCEPT !.lexical = [state |-> "pending", call |-> call]]

\* this.vectorStore.search(queryVector, limit) is called. The store of an
\* engine has its table: initializeVectorStore keeps only a store whose
\* initialize() returned true.
StartVector(q, limit) ==
  [q EXCEPT !.vector = [state |-> "pending", call |-> Some(limit)]]

\* Faulty variant of BeginQuery: the query embedding is requested before the
\* vector store is looked at.
BeginQueryEmbedsFirst(query, modeOpt, packages, limitOpt) ==
  LET q == Entered(query, modeOpt, packages, limitOpt)
      e == [q EXCEPT !.embedding = "pending", !.embedCalls = q.embedCalls + 1,
                     !.embedProvider = Some(embeddingProvider)]
  IN IF q.mode = "fulltext" THEN StartLexical(q, q.limit)
     ELSE IF vectorStore = None
     THEN IF q.mode = "semantic"
          THEN Rejected([e EXCEPT !.embedding = "resolved"], "Vector search not available")
          ELSE StartLexical(q, q.limit)
     ELSE e

\* Faulty variant of BeginQuery: the fallback of hybrid mode over-fetches as
\* the fused path does.
BeginQueryFallbackDoubled(query, modeOpt, packages, limitOpt) ==
  LET q == Entered(query, modeOpt, packages, limitOpt)
  IN IF q.mode = "fulltext" THEN StartLexical(q, q.limit)
     ELSE IF vectorStore = None
     THEN IF q.mode = "semantic"
          THEN Rejected(q, "Vector search not available")
          ELSE StartLexical(q, q.limit * 2)
     ELSE [q EXCEPT !.embedding = "pending", !.embedCalls = q.embedCalls + 1,
                    !.embedProvider = Some(embeddingProvider)]

\* hybridSearch from its entry to its first await.
BeginQuery(query, modeOpt, packages, limitOpt) ==
  LET q == Entered(query, modeOpt, packages, limitOpt)
  IN IF q.mode = "fulltext" THEN StartLexical(q, q.limit)
     ELSE IF vectorStore = None
     THEN IF q.mode = "semantic"
          THEN Rejected(q, "Vector search not available")
          ELSE StartLexical(q, q.limit)
     ELSE [q EXCEPT !.embedding = "pending", !.embedCalls = q.embedCalls + 1,
                    !.embedProvider = Some(embeddingProvider)]

\* Faulty variant of AfterEmbedding: the vector search is started only in
\* semantic mode; hybrid mode starts the lexical search alone.
AfterEmbeddingLexicalOnly(q) ==
  IF q.mode = "semantic" THEN StartVector([q EXCEPT !.embedding = "resolved"], q.limit)
  ELSE StartLexical([q EXCEPT !.embedding = "resolved"], q.limit * 2)

\* hybridSearch from the resolved query embedding to its next await: the one
\* vector search of semantic mode, or both calls inside Promise.all([...]).
AfterEmbedding(q) ==
  IF q.mode = "semantic" THEN StartVector([q EXCEPT !.embedding = "resolved"], q.limit)
  ELSE StartVector(StartLexical([q EXCEPT !.embedding = "resolved"], q.limit * 2),
                   q.limit * 2)

\* Faulty variant of EmbeddingFailed: the query falls back to the lexical search.
EmbeddingFailedFallsBack(q) ==
  StartLexical([q EXCEPT !.embedding = "rejected"], q.limit)

\* await generateQueryEmbedding throws: nothing catches it in hybridSearch.
EmbeddingFailed(q) ==
  Rejected([q EXCEPT !.embedding = "rejected"], "embedding provider error")

\* Every search the call has started has answered, or one has failed.
CanSettle(q) ==
  /\ q.lexical.state # "none" \/ q.vector.state # "none"
  /\ \/ "failed" \in {q.lexical.state, q.vector.state}
     \/ "pending" \notin {q.lexical.state, q.vector.state}

\* hybridSearch after its last await: the rejection of a search is passed on;
\* else the result of this.search as it is, the mapped vector results, or the
\* fused, boosted, sorted, normalized and cut list.
Settle(q) ==
  IF "failed" \in {q.lexical.state, q.vector.state} THEN Rejected(q, q.error)
  ELSE IF q.vector.state = "none" THEN Resolved(q, <<>>, <<>>, q.fulltextResults)
  ELSE IF q.mode = "semantic"
  THEN Resolved(q, <<>>, <<>>, SemanticResults(q.vectorResults))
  ELSE LET fused == reciprocalRankFusion(ToRanked(q.fulltextResults),
                                         ToRanked(q.vectorResults), HybridRRFOptions)
           boosted == Boosted(fused, q.query)
       IN Resolved(q, fused, boosted, ToHybridResults(Ranked(boosted, q.limit)))

InFlight == ret.op = "hybridSearch" /\ ret.status = "pending"

QueryStart ==
  \E query \in StepQueries, modeOpt \in ModeOptions,
     packages \in StepPackageOptions, limitOpt \in StepLimitOptions :
    /\ ret = Idle
    /\ ret' = BeginQuery(query, modeOpt, packages, limitOpt)
    /\ UNCHANGED <<engine, disk>>

\* generateQueryEmbedding resolves; a provider 'auto' was resolved by detectProvider.
EmbeddingResolves ==
  /\ InFlight
  /\ ret.embedding = "pending"
  /\ \E provider \in (IF ret.embedProvider[1] = "auto" THEN DetectableProviders
                      ELSE {ret.embedProvider[1]}) :
       ret' = [AfterEmbedding(ret) EXCEPT !.embedProvider = Some(provider)]
  /\ UNCHANGED <<engine, disk>>

\* generateQueryEmbedding rejects: the await throws out of hybridSearch.
EmbeddingRejects ==
  /\ InFlight
  /\ ret.embedding = "pending"
  /\ ret' = EmbeddingFailed(ret)
  /\ UNCHANGED <<engine, disk>>

\* The Orama search of this.search answers, or throws.
LexicalCompletes ==
  /\ InFlight
  /\ ret.lexical.state = "pending"
  /\ \/ \E hits \in SearchHitLists(db[1], ret.lexical.call[1].packages,
                                   ret.lexical.call[1].limit) :
          ret' = [ret EXCEPT !.lexical.state = "done",
                             !.fulltextResults = SearchResults(hits)]
     \/ ret' = [ret EXCEPT !.lexical.state = "failed",
                           !.error = IF ret.error = "" THEN "search failed"
                                     ELSE ret.error]
  /\ UNCHANGED <<engine, disk>>

\* table.vectorSearch answers, or throws and VectorStore.search rethrows.
VectorCompletes ==
  /\ InFlight
  /\ ret.vector.state = "pending"
  /\ \/ \E rows \in VectorRowLists(vectorStore[1].table, ret.vector.call[1]) :
          ret' = [ret EXCEPT !.vector.state = "done",
                             !.vectorResults = VectorResults(rows)]
     \/ ret' = [ret EXCEPT !.vector.state = "failed",
                           !.error = IF ret.error = "" THEN "Vector search failed"
                                     ELSE ret.error]
  /\ UNCHANGED <<engine, disk>>

\* The await on the search, or on Promise.all, resumes hybridSearch.
QuerySettles ==
  /\ InFlight
  /\ CanSettle(ret)
  /\ ret' = Settle(ret)
  /\ UNCHANGED <<engine, disk>>

\* ------------------------------------------------------------------------
\* chunker.ts: markdown files into chunks
\* ------------------------------------------------------------------------

\* A markdown text is the sequence of its lines, as body.split('\n') gives
\* them. A line is its length in characters and, when it is a heading, its
\* level and text; level 0 marks a line that parseHeading does not match.
\* The lines carry no whitespace at either end, so the blank line is the
\* only line that trim() removes.
MIN_CHUNK_SIZE == 100

TARGET_CHUNK_SIZE == 500

\* The longest body, in lines.
MaxBodyLines == 4

BlankLine == [level |-> 0, text |-> "", len |-> 0]

TextLine(n) == [level |-> 0, text |-> "", len |-> n]

\* '#' level times, one space, the heading text.
HeadingLine(level, text) ==
  [level |-> level, text |-> text, len |-> level + 1 + Len(text)]

\* Lines that meet both size tests from either side: 49 + 1 + 50 = 100,
\* 248 + 2 + 250 = 500, 250 + 1 + 250 = 501.
BodyLineSet ==
  {BlankLine, TextLine(49), TextLine(50), TextLine(248), TextLine(250),
   HeadingLine(1, "Guide"), HeadingLine(2, "Setup"), HeadingLine(2, "Usage"),
   HeadingLine(3, "Steps")}

Bodies == UNION {[1..n -> BodyLineSet] : n \in 1..MaxBodyLines}

RECURSIVE LineLengths(_)
LineLengths(lines) ==
  IF lines = <<>> THEN 0 ELSE Head(lines).len + LineLengths(Tail(lines))

\* String.length of lines.join('\n').
StrLen(lines) ==
  IF lines = <<>> THEN 0 ELSE LineLengths(lines) + Len(lines) - 1

RECURSIVE TrimStart(_)
TrimStart(lines) ==
  IF lines # <<>> /\ Head(lines) = BlankLine THEN TrimStart(Tail(lines))
  ELSE lines

RECURSIVE TrimEnd(_)
TrimEnd(lines) ==
  IF lines # <<>> /\ lines[Len(lines)] = BlankLine
  THEN TrimEnd(SubSeq(lines, 1, Len(lines) - 1))
  ELSE lines

\* String.trim(): of an all-blank text nothing is left, the empty string.
Trim(lines) == TrimEnd(TrimStart(lines))

parseHeading(line) ==
  IF line.level = 0 THEN None
  ELSE Some([level |-> line.level, text |-> line.text])

\* The section under way is kept when its trimmed content is long enough.
FlushSection(sections, currentHeadings, currentContent) ==
  IF Len(currentContent) > 0
     /\ StrLen(Trim(currentContent)) >= MIN_CHUNK_SIZE
  THEN Append(sections, [headings |-> currentHeadings,
                         content |-> Trim(currentContent)])
  ELSE sections

\* One turn of the loop over the lines of the body.
SectionStep(st, line, documentTitle) ==
  LET heading == parseHeading(line) IN
  IF heading # None /\ heading[1].level = 1 /\ ~st.h1Seen
  THEN [st EXCEPT !.h1Seen = TRUE]
  ELSE IF heading # None /\ heading[1].level = 2
  THEN [st EXCEPT
          !.sections = FlushSection(@, st.currentHeadings, st.currentContent),
          !.currentHeadings = <<documentTitle, heading[1].text>>,
          !.currentContent = <<>>]
  ELSE [st EXCEPT
          !.currentHeadings =
             IF heading # None /\ heading[1].level >= 3 /\ Len(@) >= 2
             THEN <<@[1], @[2], heading[1].text>>
             ELSE @,
          !.currentContent = Append(@, line)]

RECURSIVE SectionLoop(_, _, _)
SectionLoop(lines, st, documentTitle) ==
  IF lines = <<>> THEN st
  ELSE SectionLoop(Tail(lines), SectionStep(st, Head(lines), documentTitle),
                   documentTitle)

\* A faulty splitByH2Sections, without the whole-document fallback.
splitByH2SectionsNoFallback(body, documentTitle) ==
  LET st == SectionLoop(body,
                        [sections |-> <<>>,
                         currentHeadings |-> <<documentTitle>>,
                         currentContent |-> <<>>,
                         h1Seen |-> FALSE],
                        documentTitle)
  IN FlushSection(st.sections, st.currentHeadings, st.currentContent)

splitByH2Sections(body, documentTitle) ==
  LET st == SectionLoop(body,
                        [sections |-> <<>>,
                         currentHeadings |-> <<documentTitle>>,
                         currentContent |-> <<>>,
                         h1Seen |-> FALSE],
                        documentTitle)
      sections == FlushSection(st.sections, st.currentHeadings,
                               st.currentContent)
  IN IF Len(sections) = 0 /\ StrLen(Trim(body)) >= MIN_CHUNK_SIZE
     THEN <<[headings |-> <<documentTitle>>, content |-> Trim(body)]>>
     ELSE sections

\* content.split(/\n\n+/) of a trimmed content: the maximal runs of lines
\* that are not blank.
RECURSIVE ParagraphLoop(_, _, _)
ParagraphLoop(lines, para, paragraphs) ==
  IF lines = <<>>
  THEN IF para = <<>> THEN paragraphs ELSE Append(paragraphs, para)
  ELSE IF Head(lines) = BlankLine
  THEN ParagraphLoop(Tail(lines), <<>>,
                     IF para = <<>> THEN paragraphs
                     ELSE Append(paragraphs, para))
  ELSE ParagraphLoop(Tail(lines), Append(para, Head(lines)), paragraphs)

Paragraphs(content) == ParagraphLoop(content, <<>>, <<>>)

\* A faulty PushChunk, without the minimum: whatever is left of the chunk is
\* kept.
PushChunkAnyLength(chunks, headings, currentChunk) ==
  IF StrLen(Trim(currentChunk)) > 0
  THEN Append(chunks, [headings |-> headings, content |-> Trim(currentChunk)])
  ELSE chunks

\* The chunk under way is kept when its trimmed content is long enough.
PushChunk(chunks, headings, currentChunk) ==
  IF StrLen(Trim(currentChunk)) >= MIN_CHUNK_SIZE
  THEN Append(chunks, [headings |-> headings, content |-> Trim(currentChunk)])
  ELSE chunks

\* One turn of the loop over the paragraphs of a long section.
ChunkStep(st, para, headings) ==
  IF StrLen(st.currentChunk) + StrLen(para) + 2 > TARGET_CHUNK_SIZE
  THEN [chunks |-> PushChunk(st.chunks, headings, st.currentChunk),
        currentChunk |-> para]
  ELSE [st EXCEPT !.currentChunk =
                     IF @ # <<>> THEN @ \o <<BlankLine>> \o para ELSE para]

RECURSIVE ChunkLoop(_, _, _)
ChunkLoop(paragraphs, st, headings) ==
  IF paragraphs = <<>> THEN st
  ELSE ChunkLoop(Tail(paragraphs), ChunkStep(st, Head(paragraphs), headings),
                 headings)

splitLargeSection(section) ==
  IF StrLen(section.content) <= TARGET_CHUNK_SIZE THEN <<section>>
  ELSE LET st == ChunkLoop(Paragraphs(section.content),
                           [chunks |-> <<>>, currentChunk |-> <<>>],
                           section.headings)
           chunks == PushChunk(st.chunks, section.headings, st.currentChunk)
       IN IF Len(chunks) > 0 THEN chunks ELSE <<section>>

\* The files of the context directory: their path relative to it, and the
\* title that their file name gives.
MarkdownFiles == {"docs/getting-started.md"}

FilenameTitle(relativePath) ==
  CASE relativePath = "docs/getting-started.md" -> "Getting Started"
    [] relativePath = "a.md" -> "A"
    [] relativePath = "a.md#1.md" -> "A.Md#1"
    [] relativePath = "notes/b.mdx" -> "B"

\* The title of the frontmatter, if it has one.
FrontmatterTitles == {None, Some("Manual")}

RECURSIVE FirstH1(_)
FirstH1(body) ==
  IF body = <<>> THEN None
  ELSE IF Head(body).level = 1 THEN Some(Head(body).text)
  ELSE FirstH1(Tail(body))

extractTitle(frontmatterTitle, body, relativePath) ==
  IF frontmatterTitle # None THEN frontmatterTitle[1]
  ELSE IF FirstH1(body) # None THEN FirstH1(body)[1]
  ELSE FilenameTitle(relativePath)

RECURSIVE AllChunks(_)
AllChunks(sections) ==
  IF sections = <<>> THEN <<>>
  ELSE splitLargeSection(Head(sections)) \o AllChunks(Tail(sections))

\* A faulty chunkFile: the id is the index alone.
chunkFileIdsWithoutPath(relativePath, packageAlias, frontmatterTitle, body) ==
  LET title == extractTitle(frontmatterTitle, body, relativePath)
      allChunks == AllChunks(splitByH2Sections(body, title))
  IN [index \in 1..Len(allChunks) |->
        [id |-> "#" \o ToString(index - 1),
         content |-> allChunks[index].content,
         path |-> relativePath,
         package |-> packageAlias,
         headings |-> allChunks[index].headings,
         metadata |-> [title |-> title]]]

chunkFile(relativePath, packageAlias, frontmatterTitle, body) ==
  LET title == extractTitle(frontmatterTitle, body, relativePath)
      allChunks == AllChunks(splitByH2Sections(body, title))
  IN [index \in 1..Len(allChunks) |->
        [id |-> relativePath \o "#" \o ToString(index - 1),
         content |-> allChunks[index].content,
         path |-> relativePath,
         package |-> packageAlias,
         headings |-> allChunks[index].headings,
         metadata |-> [title |-> title]]]

\* chunkFile reads one markdown file and returns its chunks.
CallChunkFile ==
  /\ ret = Idle
  /\ \E relativePath \in MarkdownFiles, packageAlias \in Packages,
        frontmatterTitle \in FrontmatterTitles, body \in Bodies :
       ret' = [op |-> "chunkFile", status |-> "ok",
               relativePath |-> relativePath,
               packageAlias |-> packageAlias,
               frontmatterTitle |-> frontmatterTitle,
               body |-> body,
               title |-> extractTitle(frontmatterTitle, body, relativePath),
               value |-> chunkFile(relativePath, packageAlias,
                                   frontmatterTitle, body)]
  /\ UNCHANGED <<engine, disk>>

\* The most markdown files a package directory holds.
MaxFiles == 2

\* The markdown files findMarkdownFiles can meet under a package directory,
\* by their path relative to the context directory.
PackageFiles == {"a.md", "a.md#1.md", "notes/b.mdx"}

\* What fs.readFile and matter make of a file: nothing when either throws,
\* else its frontmatter title and body. The bodies give no chunk, one chunk
\* and two chunks.
PackageBodies ==
  {<<TextLine(49)>>, <<TextLine(250)>>,
   <<TextLine(250), BlankLine, TextLine(250)>>}

FileTexts ==
  {None} \cup {Some([frontmatterTitle |-> None, body |-> body]) :
                 body \in PackageBodies}

\* A package directory: missing, or its markdown files in the order
\* findMarkdownFiles lists them, each path once.
PackageDirs ==
  {None} \cup
  {Some(files) : files \in
     {f \in UNION {[1..n -> [path : PackageFiles, text : FileTexts]] :
                     n \in 0..MaxFiles} :
        \A i, j \in 1..Len(f) : i # j => f[i].path # f[j].path}}

\* A faulty loop of chunkPackage: the first file that fails ends the pass.
RECURSIVE ChunkFilesStopAtFailure(_, _)
ChunkFilesStopAtFailure(files, packageAlias) ==
  IF files = <<>> \/ Head(files).text = None THEN <<>>
  ELSE chunkFile(Head(files).path, packageAlias,
                 Head(files).text[1].frontmatterTitle,
                 Head(files).text[1].body)
       \o ChunkFilesStopAtFailure(Tail(files), packageAlias)

\* The loop of chunkPackage over the files: a chunkFile that throws is
\* caught and adds nothing.
RECURSIVE ChunkFiles(_, _)
ChunkFiles(files, packageAlias) ==
  IF files = <<>> THEN <<>>
  ELSE (IF Head(files).text = None THEN <<>>
        ELSE chunkFile(Head(files).path, packageAlias,
                       Head(files).text[1].frontmatterTitle,
                       Head(files).text[1].body))
       \o ChunkFiles(Tail(files), packageAlias)

chunkPackage(packageDir, packageAlias) ==
  IF packageDir = None THEN <<>>
  ELSE ChunkFiles(packageDir[1], packageAlias)

\* chunkPackage reads the markdown files of one package directory.
CallChunkPackage ==
  /\ ret = Idle
  /\ \E packageDir \in PackageDirs, packageAlias \in Packages :
       ret' = [op |-> "chunkPackage", status |-> "ok",
               packageDir |-> packageDir,
               packageAlias |-> packageAlias,
               value |-> chunkPackage(packageDir, packageAlias)]
  /\ UNCHANGED <<engine, disk>>


\* ------------------------------------------------------------------------
\* index-search.ts: indexSearchCommand
\* ------------------------------------------------------------------------

\* What chunkPackage returns for the packages of the project at the time of
\* a run; the content of a package changes between runs.
PackageChunkLists(alias) ==
  IF alias = "p1" THEN {<<>>, <<ChunkReadme>>, <<ChunkReadme, ChunkAuth>>}
  ELSE {<<>>, <<ChunkHowto>>}

\* readConfig: no configuration or an empty package list (None), or the
\* configured packages in order, each with the chunks chunkPackage finds.
ProjectConfigs ==
  {None}
  \cup {Some(<<[alias |-> "p1", chunks |-> c1]>>) :
          c1 \in PackageChunkLists("p1")}
  \cup {Some(<<[alias |-> "p1", chunks |-> c1], [alias |-> "p2", chunks |-> c2]>>) :
          c1 \in PackageChunkLists("p1"), c2 \in PackageChunkLists("p2")}

\* The loop over config.packages: allChunks.push(...chunks).
RECURSIVE CollectChunks(_)
CollectChunks(packages) ==
  IF packages = <<>> THEN <<>>
  ELSE (IF Len(Head(packages).chunks) > 0 THEN Head(packages).chunks ELSE <<>>)
       \o CollectChunks(Tail(packages))

\* The step of a run that throws, if any: fs.writeJson of saveIndex,
\* generateEmbeddings, or VectorStore.createIndex before or after
\* createTable.
CommandFailures == {"none", "save", "embed", "table", "metadata"}

\* createIndex and saveIndex on the engine of the command: the stored index.
StoredIndexOf(chunks) ==
  [metadata |-> [version |-> INDEX_VERSION, chunkCount |-> Len(chunks),
                 packages |-> UniquePackages(chunks)],
   data |-> chunks]

\* A faulty run: an empty chunk list is indexed like any other.
IndexRunNoAbort(config, semantic, resolvedProvider, failure) ==
  LET allChunks == IF config = None THEN <<>> ELSE CollectChunks(config[1])
      rows == [i \in 1..Len(allChunks) |-> VectorChunk(allChunks[i])]
      meta == Some([embedding |-> [provider |-> resolvedProvider],
                    chunkCount |-> Len(allChunks)])
  IN [result |-> Done("indexSearchCommand", Len(allChunks)),
      indexFile |-> Some(StoredIndexOf(allChunks)),
      vectorDir |-> IF semantic THEN Some(rows) ELSE vectorDir,
      vectorMetaFile |-> IF semantic THEN meta ELSE vectorMetaFile]

\* One run of indexSearchCommand: what it returns or throws and the index
\* files it leaves.
IndexRun(config, semantic, resolvedProvider, failure) ==
  LET allChunks == IF config = None THEN <<>> ELSE CollectChunks(config[1])
      rows == [i \in 1..Len(allChunks) |-> VectorChunk(allChunks[i])]
      meta == Some([embedding |-> [provider |-> resolvedProvider],
                    chunkCount |-> Len(allChunks)])
      unchanged(result) ==
        [result |-> result, indexFile |-> indexFile,
         vectorDir |-> vectorDir, vectorMetaFile |-> vectorMetaFile]
      saved == Some(StoredIndexOf(allChunks))
  IN IF config = None
     THEN unchanged(Failed("indexSearchCommand", "No packages configured"))
     ELSE IF Len(allChunks) = 0
     THEN unchanged(Failed("indexSearchCommand", "No content to index"))
     ELSE IF failure = "save"
     THEN unchanged(Failed("indexSearchCommand", "save"))
     ELSE IF ~semantic \/ failure = "embed"
     THEN [result |-> IF semantic THEN Failed("indexSearchCommand", "embed")
                      ELSE Done("indexSearchCommand", Len(allChunks)),
           indexFile |-> saved,
           vectorDir |-> vectorDir, vectorMetaFile |-> vectorMetaFile]
     ELSE IF failure = "table"
     THEN [result |-> Failed("indexSearchCommand", "Failed to create vector index"),
           indexFile |-> saved,
           vectorDir |-> None, vectorMetaFile |-> vectorMetaFile]
     ELSE IF failure = "metadata"
     THEN [result |-> Failed("indexSearchCommand", "Failed to create vector index"),
           indexFile |-> saved,
           vectorDir |-> Some(rows), vectorMetaFile |-> vectorMetaFile]
     ELSE [result |-> Done("indexSearchCommand", Len(allChunks)),
           indexFile |-> saved,
           vectorDir |-> Some(rows), vectorMetaFile |-> meta]

\* `nocaap index [--semantic]` in a process of its own: the engine of the
\* command is local to it.
IndexSearchCommand ==
  /\ ret = Idle
  /\ \E config \in ProjectConfigs, semantic \in BOOLEAN,
        resolvedProvider \in EmbeddingProviders, failure \in CommandFailures :
       LET run == IndexRun(config, semantic, resolvedProvider, failure) IN
       /\ ret' = [run.result EXCEPT !.op = "indexSearchCommand"]
                   @@ [semantic |-> semantic, config |-> config]
       /\ indexFile' = run.indexFile
       /\ vectorDir' = run.vectorDir
       /\ vectorMetaFile' = run.vectorMetaFile
  /\ UNCHANGED engine

\* ------------------------------------------------------------------------
\* search-engine.ts: SearchEngine.createIndex, await by await
\* ------------------------------------------------------------------------

\* The documents insertMultiple inserts between two turns of the event loop
\* (500 in the code, against chunk lists of thousands).
InsertBatchSize == 2

\* The most queries answered while one createIndex is under way.
MaxAnswers == 1

\* createIndex is entered and awaits create({ schema }).
CreateIndexStarts ==
  /\ ret = Idle
  /\ \E chunks \in ChunkLists :
       ret' = [op |-> "createIndex", status |-> "pending", chunks |-> chunks,
               phase |-> "create", answers |-> <<>>]
  /\ UNCHANGED <<engine, disk>>

IsBuilding == ret.op = "createIndex" /\ ret.status = "pending"

\* this.db = await create(...): the new, empty database replaces the old.
CreateIndexAssignsDb ==
  /\ IsBuilding
  /\ ret.phase = "create"
  /\ db' = Some(<<>>)
  /\ ret' = [ret EXCEPT !.phase = "insert"]
  /\ UNCHANGED <<metadata, vectorStore, projectRoot, embeddingProvider, disk>>

\* await insertMultiple(this.db, documents, 500): the next batch.
InsertBatch ==
  /\ IsBuilding
  /\ ret.phase = "insert"
  /\ Len(db[1]) < Len(ret.chunks)
  /\ db' = Some(SubSeq(ret.chunks, 1,
                       Min(Len(db[1]) + InsertBatchSize, Len(ret.chunks))))
  /\ UNCHANGED <<metadata, vectorStore, projectRoot, embeddingProvider, disk, ret>>

\* insertMultiple has resolved: this.metadata = {...} and createIndex returns.
CreateIndexCompletes ==
  /\ IsBuilding
  /\ ret.phase = "insert"
  /\ Len(db[1]) = Len(ret.chunks)
  /\ metadata' = Some([version |-> INDEX_VERSION,
                       chunkCount |-> Len(ret.chunks),
                       packages |-> UniquePackages(ret.chunks)])
  /\ ret' = Done("createIndex", Len(ret.chunks))
  /\ UNCHANGED <<db, vectorStore, projectRoot, embeddingProvider, disk>>

\* A client calls search() while createIndex awaits; its answer is kept
\* beside the pending call.
SearchWhileBuilding ==
  /\ IsBuilding
  /\ Len(ret.answers) < MaxAnswers
  /\ \E query \in StepQueries, packages \in StepPackageOptions,
        limitOpt \in StepLimitOptions :
       \E o \in SearchOutcomes(SearchCall(query, packages, LimitOf(limitOpt))) :
         ret' = [ret EXCEPT !.answers =
                   Append(@, [op |-> "search", query |-> query,
                              packages |-> packages,
                              limit |-> LimitOf(limitOpt),
                              status |-> o.status, error |-> o.error,
                              out |-> o.out])]
  /\ UNCHANGED <<engine, disk>>

\* ------------------------------------------------------------------------
\* update.ts: updateCommand
\* ------------------------------------------------------------------------

\* The working tree of a package as updatePackage finds it: whether the
\* directory exists and is a git repository, whether git status reports
\* uncommitted changes, the commit at HEAD and on the remote, and whether
\* git pull succeeds.
PackageTrees ==
  {[exists |-> FALSE, git |-> FALSE, dirty |-> FALSE,
    head |-> "c1", remote |-> "c1", pullOk |-> TRUE],
   [exists |-> TRUE, git |-> FALSE, dirty |-> FALSE,
    head |-> "c1", remote |-> "c1", pullOk |-> TRUE]}
  \cup {[exists |-> TRUE, git |-> TRUE, dirty |-> dirty,
         head |-> "c1", remote |-> remote, pullOk |-> TRUE] :
          dirty \in BOOLEAN, remote \in {"c1", "c2"}}
  \cup {[exists |-> TRUE, git |-> TRUE, dirty |-> FALSE,
         head |-> "c1", remote |-> "c2", pullOk |-> FALSE]}

\* The lockfile entry of a package, if it has one.
LockEntries ==
  {None} \cup {Some([commitHash |-> "c1", sparsePath |-> sparsePath]) :
                 sparsePath \in {"", "docs"}}

\* config.packages
ConfigPackages == <<[alias |-> "p1", path |-> ""], [alias |-> "p2", path |-> ""]>>

\* The projects updateCommand runs on.
Projects == [trees : [Packages -> PackageTrees], lock : [Packages -> LockEntries]]

\* The aliases passed to updateCommand: none, a configured one, an unknown one.
AliasOptions == {None, Some("p2"), Some("p9")}

Skipped(pkg, tree, lockEntry, error) ==
  [result |-> [alias |-> pkg.alias, status |-> "skipped", error |-> error],
   tree |-> tree, lockEntry |-> lockEntry, pulled |-> FALSE]

\* What follows the checks of updatePackage: pull, and the lockfile update.
PullAndLock(pkg, tree, lockEntry, force) ==
  IF ~tree.pullOk
  THEN [result |-> [alias |-> pkg.alias, status |-> "error",
                    error |-> "Failed to pull updates"],
        tree |-> tree, lockEntry |-> lockEntry, pulled |-> TRUE]
  ELSE LET oldCommit == tree.head
           newCommit == tree.remote
           pulledTree == [tree EXCEPT !.head = newCommit]
       IN IF oldCommit = newCommit /\ ~force
          THEN [result |-> [alias |-> pkg.alias, status |-> "up-to-date",
                            error |-> ""],
                tree |-> pulledTree, lockEntry |-> lockEntry, pulled |-> TRUE]
          ELSE [result |-> [alias |-> pkg.alias, status |-> "updated",
                            error |-> ""],
                tree |-> pulledTree,
                lockEntry |-> Some([commitHash |-> newCommit,
                                    sparsePath |-> pkg.path]),
                pulled |-> TRUE]

\* A faulty updatePackage: --force passes over the dirty check.
updatePackageForceSkipsDirtyCheck(pkg, tree, lockEntry, force) ==
  IF ~tree.exists THEN Skipped(pkg, tree, lockEntry, "Directory not found")
  ELSE IF ~tree.git THEN Skipped(pkg, tree, lockEntry, "Not a git repository")
  ELSE IF tree.dirty /\ ~force
  THEN Skipped(pkg, tree, lockEntry, "Uncommitted changes")
  ELSE IF lockEntry # None /\ lockEntry[1].sparsePath # pkg.path
  THEN Skipped(pkg, tree, lockEntry, "Sparse path changed")
  ELSE PullAndLock(pkg, tree, lockEntry, force)

\* updatePackage: its result, the working tree and the lockfile entry it
\* leaves, and whether it called pull.
updatePackage(pkg, tree, lockEntry, force) ==
  IF ~tree.exists THEN Skipped(pkg, tree, lockEntry, "Directory not found")
  ELSE IF ~tree.git THEN Skipped(pkg, tree, lockEntry, "Not a git repository")
  ELSE IF tree.dirty THEN Skipped(pkg, tree, lockEntry, "Uncommitted changes")
  ELSE IF lockEntry # None /\ lockEntry[1].sparsePath # pkg.path
  THEN Skipped(pkg, tree, lockEntry, "Sparse path changed")
  ELSE PullAndLock(pkg, tree, lockEntry, force)

\* config.packages.filter(p => p.alias === alias)
RECURSIVE FilterAlias(_, _)
FilterAlias(packages, alias) ==
  IF packages = <<>> THEN <<>>
  ELSE (IF alias = None \/ Head(packages).alias = alias[1]
        THEN <<Head(packages)>> ELSE <<>>)
       \o FilterAlias(Tail(packages), alias)

\* The loop of updateCommand over the packages to update.
RECURSIVE UpdateLoop(_, _, _)
UpdateLoop(packages, force, st) ==
  IF packages = <<>> THEN st
  ELSE LET pkg == Head(packages)
           u == updatePackage(pkg, st.project.trees[pkg.alias],
                              st.project.lock[pkg.alias], force)
       IN UpdateLoop(Tail(packages), force,
            [project |-> [trees |-> [st.project.trees EXCEPT ![pkg.alias] = u.tree],
                          lock |-> [st.project.lock EXCEPT ![pkg.alias] = u.lockEntry]],
             results |-> Append(st.results, u.result),
             pulled |-> IF u.pulled THEN st.pulled \cup {pkg.alias}
                        ELSE st.pulled])

HasStatus(results, status) ==
  \E i \in 1..Len(results) : results[i].status = status

\* updateCommand: the project it leaves, the result of every package, the
\* packages pull was called for, and whether the command throws.
updateCommand(project, alias, force) ==
  LET packagesToUpdate == FilterAlias(ConfigPackages, alias)
      st == UpdateLoop(packagesToUpdate, force,
                       [project |-> project, results |-> <<>>, pulled |-> {}])
  IN IF alias # None /\ packagesToUpdate = <<>>
     THEN [status |-> "error", error |-> "not found in configuration",
           after |-> project, results |-> <<>>, pulled |-> {}]
     ELSE [status |-> IF HasStatus(st.results, "error") THEN "error" ELSE "ok",
           error |-> IF HasStatus(st.results, "error")
                     THEN "package(s) failed to update" ELSE "",
           after |-> st.project, results |-> st.results, pulled |-> st.pulled]

\* `nocaap update [alias] [--force]` on a project.
CallUpdateCommand ==
  /\ ret = Idle
  /\ \E project \in Projects, alias \in AliasOptions, force \in BOOLEAN :
       ret' = [op |-> "updateCommand", project |-> project, alias |-> alias,
               force |-> force]
              @@ updateCommand(project, alias, force)
  /\ UNCHANGED <<engine, disk>>

\* ------------------------------------------------------------------------
\* registry.ts: fetchRegistryWithImports
\* ------------------------------------------------------------------------

DEFAULT_MAX_DEPTH == 3

\* Registry URLs, as character sequences: the comparison looks at their end.
UrlA == <<"a">>

UrlASlash == <<"a", "/">>

UrlASlashSlash == <<"a", "/", "/">>

UrlB == <<"b">>

UrlBSlash == <<"b", "/">>

UrlC == <<"c">>

UrlD == <<"d">>

\* A faulty NormalizeUrl: the URL is compared as it is written.
NormalizeUrlKeepsSlash(url) == url

\* url.replace(/\/$/, ''): one slash at the end is removed.
NormalizeUrl(url) ==
  IF Len(url) > 0 /\ url[Len(url)] = "/" THEN SubSeq(url, 1, Len(url) - 1)
  ELSE url

\* The registries on the network: the imports of the registry that a URL
\* serves.
\* A cycle through a URL written with a slash; one registry imported twice
\* side by side; a cycle longer than the depth limit; a diamond; a registry
\* without imports; a URL with two slashes.
ImportGraphs ==
  {(UrlA :> <<UrlB>>) @@ (UrlB :> <<UrlASlash>>),
   (UrlA :> <<UrlB, UrlBSlash>>) @@ (UrlB :> <<>>),
   (UrlA :> <<UrlB>>) @@ (UrlB :> <<UrlC>>) @@ (UrlC :> <<UrlD>>)
      @@ (UrlD :> <<UrlA>>),
   (UrlA :> <<UrlB, UrlC>>) @@ (UrlB :> <<UrlD>>) @@ (UrlC :> <<UrlD>>)
      @@ (UrlD :> <<>>),
   (UrlA :> <<>>),
   (UrlA :> <<UrlASlashSlash>>)}

\* options.maxDepth
MaxDepthOptions == {None, Some(1), Some(2)}

\* The registry a server sends for a URL: slashes at the end do not count.
RECURSIVE ServedUrl(_)
ServedUrl(url) ==
  IF Len(url) > 0 /\ url[Len(url)] = "/"
  THEN ServedUrl(SubSeq(url, 1, Len(url) - 1))
  ELSE url

\* The registry fetchRegistry(url) resolves to: one context named after the
\* server's registry, and its imports.
RegistryAt(graph, url) ==
  [contexts |-> <<ServedUrl(url)>>, imports |-> graph[ServedUrl(url)]]

EmptyRegistry == [contexts |-> <<>>]

\* The calls of fetchRegistryWithImports within one top-level call are named
\* by their place in the tree of imports: <<>> is the top-level call,
\* <<2>> the call for its second import.
CallDone(url, depth, registry, failed) ==
  [url |-> url, depth |-> depth, state |-> "done",
   imports |-> <<>>, value |-> registry, failed |-> failed]

\* fetchRegistryWithImports from its entry to its first await: the visited
\* test, the depth test, visited.add and the start of the fetch.
EnterCall(st, id, url, depth) ==
  IF NormalizeUrl(url) \in st.visited
  THEN [st EXCEPT !.calls = @ @@ (id :> CallDone(url, depth, EmptyRegistry, FALSE))]
  ELSE IF depth >= st.maxDepth
  THEN [st EXCEPT !.calls = @ @@ (id :> CallDone(url, depth, EmptyRegistry, FALSE))]
  ELSE [st EXCEPT
          !.visited = @ \cup {NormalizeUrl(url)},
          !.fetches = Append(@, [url |-> url, depth |-> depth]),
          !.calls = @ @@ (id :> [url |-> url, depth |-> depth,
                                 state |-> "fetching", imports |-> <<>>,
                                 value |-> EmptyRegistry, failed |-> FALSE])]

\* registry.imports.map(async (importUrl) => ...): every closure runs to its
\* first await before the next one starts.
RECURSIVE EnterImports(_, _, _, _, _)
EnterImports(st, id, imports, i, depth) ==
  IF i > Len(imports) THEN st
  ELSE EnterImports(EnterCall(st, Append(id, i), imports[i], depth),
                    id, imports, i + 1, depth)

\* The keys of a Map after set(key) for every context, in insertion order.
RECURSIVE MergeContexts(_, _)
MergeContexts(contexts, merged) ==
  IF contexts = <<>> THEN merged
  ELSE MergeContexts(Tail(contexts),
                     IF \E k \in 1..Len(merged) : merged[k] = Head(contexts)
                     THEN merged ELSE Append(merged, Head(contexts)))

RECURSIVE AllContexts(_)
AllContexts(registries) ==
  IF registries = <<>> THEN <<>>
  ELSE Head(registries).contexts \o AllContexts(Tail(registries))

mergeRegistries(registries) ==
  [contexts |-> MergeContexts(AllContexts(registries), <<>>)]

IsFetching == ret.op = "fetchRegistryWithImports" /\ ret.status = "pending"

\* fetchRegistryWithImports(url, { maxDepth }) is called with no visited set.
RegistryCallStarts ==
  /\ ret = Idle
  /\ \E graph \in ImportGraphs, maxDepthOpt \in MaxDepthOptions :
       ret' = EnterCall([op |-> "fetchRegistryWithImports", status |-> "pending",
                         graph |-> graph, url |-> UrlA,
                         maxDepth |-> IF maxDepthOpt = None THEN DEFAULT_MAX_DEPTH
                                      ELSE maxDepthOpt[1],
                         visited |-> {}, fetches |-> <<>>,
                         calls |-> <<>>, error |-> "", out |-> EmptyRegistry],
                        <<>>, UrlA, 0)
  /\ UNCHANGED <<engine, disk>>

\* await fetchRegistry(url) resolves: without imports the registry is
\* returned, else the imports are entered and awaited together.
FetchResolves ==
  /\ IsFetching
  /\ \E id \in DOMAIN ret.calls :
       /\ ret.calls[id].state = "fetching"
       /\ LET call == ret.calls[id]
              registry == RegistryAt(ret.graph, call.url)
          IN IF Len(registry.imports) = 0
             THEN ret' = [ret EXCEPT !.calls[id].state = "done",
                                     !.calls[id].value =
                                        [contexts |-> registry.contexts]]
             ELSE ret' = EnterImports(
                           [ret EXCEPT !.calls[id].state = "joining",
                                       !.calls[id].imports = registry.imports,
                                       !.calls[id].value =
                                          [contexts |-> registry.contexts]],
                           id, registry.imports, 1, call.depth + 1)
  /\ UNCHANGED <<engine, disk>>

\* await fetchRegistry(url) rejects: the top-level call rejects; the catch
\* around an import makes it an empty registry.
FetchRejects ==
  /\ IsFetching
  /\ \E id \in DOMAIN ret.calls :
       /\ ret.calls[id].state = "fetching"
       /\ IF id = <<>>
          THEN ret' = [ret EXCEPT !.status = "error",
                                  !.error = "Failed to fetch registry",
                                  !.calls[id].state = "done",
                                  !.calls[id].failed = TRUE]
          ELSE ret' = [ret EXCEPT !.calls[id].state = "done",
                                  !.calls[id].value = EmptyRegistry,
                                  !.calls[id].failed = TRUE]
  /\ UNCHANGED <<engine, disk>>

\* await Promise.all(importPromises) resumes and the registries are merged.
ImportsJoin ==
  /\ IsFetching
  /\ \E id \in DOMAIN ret.calls :
       /\ ret.calls[id].state = "joining"
       /\ \A i \in 1..Len(ret.calls[id].imports) :
            ret.calls[Append(id, i)].state = "done"
       /\ ret' = [ret EXCEPT
                    !.calls[id].state = "done",
                    !.calls[id].value =
                       mergeRegistries(
                         <<ret.calls[id].value>> \o
                         [i \in 1..Len(ret.calls[id].imports) |->
                            ret.calls[Append(id, i)].value])]
  /\ UNCHANGED <<engine, disk>>

\* The top-level call resolves with the merged registry.
RegistryCallSettles ==
  /\ IsFetching
  /\ ret.calls[<<>>].state = "done"
  /\ ret' = [ret EXCEPT !.status = "ok", !.out = ret.calls[<<>>].value]
  /\ UNCHANGED <<engine, disk>>

\* ------------------------------------------------------------------------
\* Indexes of several chunk lists
\* ------------------------------------------------------------------------

\* Chunk lists of different lengths, packages and orders.
BuildChunkLists ==
  {<<ChunkAuth>>, <<ChunkHowto, ChunkReadme>>, Corpus}

CreateIndexOfAny == CreateIndexOf(BuildChunkLists)

\* ------------------------------------------------------------------------
\* Specifications
\* ------------------------------------------------------------------------

\* A new SearchEngine in a project with no index on disk.
Init ==
  /\ db = None
  /\ metadata = None
  /\ vectorStore = None
  /\ projectRoot = None
  /\ embeddingProvider = "auto"
  /\ indexFile = None
  /\ vectorDir = None
  /\ vectorMetaFile = None
  /\ ret = Idle

\* The caller takes the result of the call it made.
Return ==
  /\ ret # Idle
  /\ ret.status # "pending"
  /\ ret' = Idle
  /\ UNCHANGED <<engine, disk>>

Next ==
  \/ CreateIndex
  \/ SaveIndex
  \/ BuildVectorIndex
  \/ LoadIndex
  \/ HybridSearch
  \/ Return

\* The engine, its index files and the queries it answers.
Spec == Init /\ [][Next]_vars

NextFusion ==
  \/ CallRRF
  \/ CallNormalize
  \/ Return

\* The exported functions of fusion.ts, called directly on bounded inputs.
SpecFusion == Init /\ [][NextFusion]_vars

\* An engine that has loaded the lexical and the vector index of a project
\* (the state of a serving process after loadIndex), the indexes on disk.
InitServing ==
  /\ db = Some(Corpus)
  /\ metadata = Some([version |-> INDEX_VERSION, chunkCount |-> Len(Corpus),
                      packages |-> UniquePackages(Corpus)])
  /\ vectorStore = Some([table |-> [i \in 1..Len(Corpus) |-> VectorChunk(Corpus[i])]])
  /\ projectRoot = Some("root")
  /\ embeddingProvider = "ollama"
  /\ indexFile = Some([metadata |-> metadata[1], data |-> db[1]])
  /\ vectorDir = Some(vectorStore[1].table)
  /\ vectorMetaFile = Some([embedding |-> [provider |-> "ollama"],
                            chunkCount |-> Len(Corpus)])
  /\ ret = Idle

NextRanking ==
  \/ HybridSearch
  \/ CallRRF
  \/ Return

\* The ranking paths side by side: the queries a serving engine answers and
\* direct calls of reciprocalRankFusion. InitServing is the state Spec reaches
\* by createIndex, saveIndex, buildVectorIndex, loadIndex.
SpecRanking == InitServing /\ [][NextRanking]_vars

NextQuery ==
  \/ NewSearchEngine
  \/ CreateIndex
  \/ SaveIndex
  \/ BuildVectorIndex
  \/ BuildVectorIndexFails
  \/ LoadIndex
  \/ IndexFileReplaced
  \/ Search
  \/ QueryStart
  \/ EmbeddingResolves
  \/ EmbeddingRejects
  \/ LexicalCompletes
  \/ VectorCompletes
  \/ QuerySettles
  \/ Return

\* The engine and its index files, failures of the file system and of the
\* embedding provider included, with every query followed from await to await.
SpecQuery == Init /\ [][NextQuery]_vars

NextChunker ==
  \/ CallChunkFile
  \/ CallChunkPackage
  \/ Return

\* The chunker applied to markdown files of every shape.
SpecChunker == Init /\ [][NextChunker]_vars

NextIndexCommand ==
  \/ IndexSearchCommand
  \/ NewSearchEngine
  \/ LoadIndex
  \/ Return

\* Runs of `nocaap index` on a project whose packages change, and servers
\* that load what the runs leave.
SpecIndexCommand == Init /\ [][NextIndexCommand]_vars

NextBuild ==
  \/ NewSearchEngine
  \/ CreateIndexStarts
  \/ CreateIndexAssignsDb
  \/ InsertBatch
  \/ CreateIndexCompletes
  \/ SearchWhileBuilding
  \/ Search
  \/ Return

\* An engine whose index is built and rebuilt while clients query it.
SpecBuild == Init /\ [][NextBuild]_vars

NextUpdate ==
  \/ CallUpdateCommand
  \/ Return

\* `nocaap update` on projects in every state of their packages.
SpecUpdate == Init /\ [][NextUpdate]_vars

NextRoundTrip ==
  \/ NewSearchEngine
  \/ CreateIndexOfAny
  \/ SaveIndex
  \/ LoadIndex
  \/ Search
  \/ Return

\* Engines that build, save and load indexes of several chunk lists; the
\* index file is written by saveIndex only.
SpecRoundTrip == Init /\ [][NextRoundTrip]_vars

NextRegistry ==
  \/ RegistryCallStarts
  \/ FetchResolves
  \/ FetchRejects
  \/ ImportsJoin
  \/ RegistryCallSettles
  \/ Return

\* Registries fetched with their imports. Every fetch settles (fetchRegistry
\* aborts it after DEFAULT_TIMEOUT_MS) and the event loop resumes every
\* await whose promises have settled.
SpecRegistry ==
  /\ Init
  /\ [][NextRegistry]_vars
  /\ WF_vars(FetchResolves \/ FetchRejects)
  /\ WF_vars(ImportsJoin)
  /\ WF_vars(RegistryCallSettles)

\* ------------------------------------------------------------------------
\* Properties: vocabulary
\* ------------------------------------------------------------------------

Ids(list) == {list[i].id : i \in 1..Len(list)}

IdSeq(list) == [i \in 1..Len(list) |-> list[i].id]

NoRepeatedId(list) ==
  \A i, j \in 1..Len(list) : i # j => list[i].id # list[j].id

\* The 1-based positions at which a list holds an id.
Positions(list, id) == {i \in 1..Len(list) : list[i].id = id}

IsRRFCall == ret.op = "reciprocalRankFusion"

IsNormalizeCall == ret.op = "normalizeScores"

\* weight / (k + r) for the position r of id in a list without repeated ids,
\* nothing when the list does not hold the id.
Contribution(list, id, weight, k) ==
  IF Positions(list, id) = {} THEN Zero
  ELSE RDiv(weight, RInt(k + (CHOOSE r \in Positions(list, id) : TRUE)))

StatedK(options) == IF "k" \in DOMAIN options THEN options["k"] ELSE 60

StatedFulltextWeight(options) ==
  IF "fulltextWeight" \in DOMAIN options THEN options["fulltextWeight"] ELSE Rat(4, 10)

StatedVectorWeight(options) ==
  IF "vectorWeight" \in DOMAIN options THEN options["vectorWeight"] ELSE Rat(6, 10)

NonIncreasing(list) ==
  \A i \in 1..(Len(list) - 1) : RLeq(list[i + 1].score, list[i].score)

\* ------------------------------------------------------------------------
\* C1
\* ------------------------------------------------------------------------

\* C1: for lists that do not repeat an id, the score of every result of
\* reciprocalRankFusion is the sum, over the lists that hold its id, of
\* weight / (k + r), r the id's 1-based position in that list (defaults k = 60,
\* fulltextWeight = 0.4, vectorWeight = 0.6); and of two documents that hold
\* the same rank, each in a different single list, the one from the list with
\* the strictly larger weight scores higher.
C1_WeightedReciprocalRankSum ==
  (IsRRFCall /\ NoRepeatedId(ret.fulltextResults) /\ NoRepeatedId(ret.vectorResults)) =>
    LET k == StatedK(ret.options)
        fw == StatedFulltextWeight(ret.options)
        vw == StatedVectorWeight(ret.options)
        ft == ret.fulltextResults
        vec == ret.vectorResults
        onlyFt(x) == Positions(ft, x.id) # {} /\ Positions(vec, x.id) = {}
        onlyVec(x) == Positions(vec, x.id) # {} /\ Positions(ft, x.id) = {}
    IN /\ \A i \in 1..Len(ret.out) :
            ret.out[i].score = RAdd(Contribution(ft, ret.out[i].id, fw, k),
                                    Contribution(vec, ret.out[i].id, vw, k))
       /\ \A i, j \in 1..Len(ret.out) :
            (/\ onlyFt(ret.out[i])
             /\ onlyVec(ret.out[j])
             /\ Positions(ft, ret.out[i].id) = Positions(vec, ret.out[j].id))
            => /\ RLess(vw, fw) => RLess(ret.out[j].score, ret.out[i].score)
               /\ RLess(fw, vw) => RLess(ret.out[i].score, ret.out[j].score)

\* A default-option fusion of two lists without repeated ids, one id in both
\* lists and two ids that hold rank 1 in one list each.
C1_Witness ==
  /\ IsRRFCall
  /\ ret.options = <<>>
  /\ NoRepeatedId(ret.fulltextResults) /\ NoRepeatedId(ret.vectorResults)
  /\ Len(ret.fulltextResults) = 2 /\ Len(ret.vectorResults) = 2
  /\ ret.fulltextResults[1].id # ret.vectorResults[1].id
  /\ ret.fulltextResults[2].id = ret.vectorResults[2].id
  /\ Len(ret.out) = 3
  /\ ret.out[1].id = ret.vectorResults[2].id
  /\ ret.out[2].id = ret.vectorResults[1].id
  /\ ret.out[2].score = Rat(6, 610)
  /\ ret.out[3].id = ret.fulltextResults[1].id

\* ------------------------------------------------------------------------
\* C4, C5
\* ------------------------------------------------------------------------

Scores(list) == {list[i].score : i \in 1..Len(list)}

\* The largest of a non-empty set of scores.
Largest(S) == CHOOSE m \in S : \A x \in S : RLeq(x, m)

\* C4: for a non-empty list of non-negative scores whose maximum is above 0,
\* normalizeScores divides every score by that maximum: every output score is
\* in [0,1], each maximum-scoring result gets exactly 1, order and length are
\* kept and every field other than score is unchanged.
C4_NormalizeDividesByMaximum ==
  (/\ IsNormalizeCall
   /\ Len(ret.results) > 0
   /\ \A x \in Scores(ret.results) : RLeq(Zero, x)
   /\ \E x \in Scores(ret.results) : RLess(Zero, x)) =>
    LET m == Largest(Scores(ret.results))
    IN /\ Len(ret.out) = Len(ret.results)
       /\ \A i \in 1..Len(ret.results) :
            /\ ret.out[i].score = RDiv(ret.results[i].score, m)
            /\ RLeq(Zero, ret.out[i].score) /\ RLeq(ret.out[i].score, One)
            /\ ret.results[i].score = m => ret.out[i].score = One
            /\ [ret.out[i] EXCEPT !.score = ret.results[i].score] = ret.results[i]

\* A list whose maximum is neither first nor unique among the scores, holding
\* a zero score as well, was normalized.
C4_Witness ==
  /\ IsNormalizeCall
  /\ Len(ret.results) = 3
  /\ ret.results[1].score = RInt(50)
  /\ ret.results[2].score = RInt(100)
  /\ ret.results[3].score = Zero
  /\ ret.out[1].score = Rat(1, 2)
  /\ ret.out[2].score = One
  /\ ret.out[3].score = Zero

\* C5: normalizeScores returns its input unchanged when the list is empty or
\* its highest score is 0.
C5_NormalizeLeavesZeroAndEmpty ==
  (/\ IsNormalizeCall
   /\ \/ Len(ret.results) = 0
      \/ Largest(Scores(ret.results)) = Zero) =>
    ret.out = ret.results

\* A list of two zero scores was normalized.
C5_Witness ==
  /\ IsNormalizeCall
  /\ Len(ret.results) = 2
  /\ Scores(ret.results) = {Zero}
  /\ Len(ret.out) = 2

\* ------------------------------------------------------------------------
\* C9, C10
\* ------------------------------------------------------------------------

\* Fulltext [a, b] fused with vector [b, c] under the default k and weights.
IsABBCFusion ==
  /\ IsRRFCall
  /\ ret.options = <<>>
  /\ Len(ret.fulltextResults) = 2 /\ Len(ret.vectorResults) = 2
  /\ ret.fulltextResults[2].id = ret.vectorResults[1].id
  /\ ret.fulltextResults[1].id # ret.fulltextResults[2].id
  /\ ret.vectorResults[2].id # ret.vectorResults[1].id
  /\ ret.vectorResults[2].id # ret.fulltextResults[1].id

\* C9: with default k and weights, fusing fulltext [a, b] with vector [b, c]
\* yields [b, c, a]; b gets 0.4/62 + 0.6/61 and ranks above the documents of
\* one list only, the rank-1 document a included.
C9_SharedDocumentRanksFirst ==
  IsABBCFusion =>
    /\ IdSeq(ret.out) = <<ret.fulltextResults[2].id, ret.vectorResults[2].id,
                          ret.fulltextResults[1].id>>
    /\ ret.out[1].score = RAdd(Rat(4, 620), Rat(6, 610))
    /\ ret.out[2].score = Rat(6, 620)
    /\ ret.out[3].score = Rat(4, 610)
    /\ RLess(ret.out[2].score, ret.out[1].score)
    /\ RLess(ret.out[3].score, ret.out[1].score)

\* Such a fusion was made and returned three results.
C9_Witness ==
  /\ IsABBCFusion
  /\ Len(ret.out) = 3

\* C10: reciprocalRankFusion returns, for any pair of input lists (empty ones,
\* an id in both lists, an id repeated inside a list), a list that holds every
\* id of the two inputs exactly once and no other id; two empty inputs give
\* the empty list.
C10_FusionHoldsEachIdOnce ==
  IsRRFCall =>
    /\ ret.status = "ok"
    /\ Ids(ret.out) = Ids(ret.fulltextResults) \cup Ids(ret.vectorResults)
    /\ NoRepeatedId(ret.out)
    /\ (Len(ret.fulltextResults) = 0 /\ Len(ret.vectorResults) = 0) => ret.out = <<>>

\* An id repeated inside the fulltext list and present in the vector list too
\* was fused into one result.
C10_Witness ==
  /\ IsRRFCall
  /\ Len(ret.fulltextResults) = 3
  /\ ret.fulltextResults[1].id = ret.fulltextResults[3].id
  /\ ret.fulltextResults[1].id # ret.fulltextResults[2].id
  /\ Len(ret.vectorResults) = 1
  /\ ret.vectorResults[1].id = ret.fulltextResults[1].id
  /\ Len(ret.out) = 2

\* ------------------------------------------------------------------------
\* hybridSearch: vocabulary of the properties
\* ------------------------------------------------------------------------

\* The last call was a hybridSearch in hybrid mode that found a vector index
\* and returned (a query leaves the engine as it found it).
IsFusedHybridCall ==
  /\ ret.op = "hybridSearch"
  /\ ret.status = "ok"
  /\ ret.mode = "hybrid"
  /\ vectorStore # None

IsSemanticCall ==
  /\ ret.op = "hybridSearch"
  /\ ret.status = "ok"
  /\ ret.mode = "semantic"

RECURSIVE RPow(_, _)
RPow(x, n) == IF n = 0 THEN One ELSE RMul(x, RPow(x, n - 1))

\* The words of the query that count as keywords: longer than 2 characters and,
\* lowercased, no stop word. One entry per occurrence in the query.
KeywordOccurrences(query) ==
  {i \in 1..Len(query) :
     Len(query[i]) > 2 /\ toLowerCase(query[i]) \notin STOP_WORDS}

\* 1.15 for every keyword occurrence that is a substring of the lowercased
\* path, times 1.25 if the lowercased path ends in readme.md or index.md.
StatedBoost(path, query) ==
  LET matches == {i \in KeywordOccurrences(query) :
                    includes(toLowerCase(path), toLowerCase(query[i]))}
      index == \/ endsWith(toLowerCase(path), ReadmeMd)
               \/ endsWith(toLowerCase(path), IndexMd)
  IN RMul(RPow(Rat(115, 100), Cardinality(matches)),
          IF index THEN Rat(125, 100) ELSE One)

\* ------------------------------------------------------------------------
\* C2
\* ------------------------------------------------------------------------

\* C2: reciprocalRankFusion returns its results in non-increasing score order
\* for any input lists; hybridSearch in hybrid mode returns its results in
\* non-increasing order of the final score, and a candidate with a higher
\* boosted score precedes every returned result with a lower boosted score,
\* whatever their order right after the fusion.
C2_ResultsInDescendingScoreOrder ==
  /\ IsRRFCall => NonIncreasing(ret.out)
  /\ IsFusedHybridCall =>
       /\ NonIncreasing(ret.out)
       /\ \A i, j \in 1..Len(ret.boosted) :
            (/\ RLess(ret.boosted[j].score, ret.boosted[i].score)
             /\ Positions(ret.out, ret.boosted[j].id) # {})
            => \E p \in Positions(ret.out, ret.boosted[i].id) :
                 \A q \in Positions(ret.out, ret.boosted[j].id) : p < q

\* A hybrid query whose boosts moved a result that the fusion had ranked last
\* to the top of the returned list.
C2_Witness ==
  /\ IsFusedHybridCall
  /\ Len(ret.fused) = 3
  /\ Len(ret.out) >= 2
  /\ ret.out[1].id = ret.fused[3].id
  /\ RLess(ret.out[2].score, ret.out[1].score)

\* ------------------------------------------------------------------------
\* C3
\* ------------------------------------------------------------------------

\* C3: a hybridSearch in hybrid mode with a vector index loaded that returns a
\* non-empty list returns scores in [0,1] with the first score exactly 1 and at
\* most `limit` results; every returned score is the result's boosted score
\* divided by the maximum over the whole fused and boosted candidate set.
C3_HybridScoresNormalized ==
  (IsFusedHybridCall /\ Len(ret.out) > 0) =>
    LET m == Largest(Scores(ret.boosted))
    IN /\ \A i \in 1..Len(ret.out) :
            /\ RLeq(Zero, ret.out[i].score) /\ RLeq(ret.out[i].score, One)
            /\ \E j \in 1..Len(ret.boosted) :
                 /\ ret.boosted[j].id = ret.out[i].id
                 /\ ret.out[i].score = RDiv(ret.boosted[j].score, m)
       /\ ret.out[1].score = One
       /\ Len(ret.out) <= ret.limit

\* A hybrid query with limit 2 over three fused candidates: the list was cut,
\* and the second result scores below 1.
C3_Witness ==
  /\ IsFusedHybridCall
  /\ ret.limit = 2
  /\ Len(ret.fused) = 3
  /\ Len(ret.out) = 2
  /\ RLess(ret.out[2].score, One)
  /\ RLess(Zero, ret.out[2].score)

\* ------------------------------------------------------------------------
\* C6
\* ------------------------------------------------------------------------

\* C6: in hybrid mode each fused result's score is multiplied by 1.15 once for
\* every query keyword that is a substring of its lowercased path and by 1.25
\* if the lowercased path ends in readme.md or index.md; matches compound, a
\* result matching neither rule keeps its fused score, and the returned scores
\* are these boosted scores over their maximum.
C6_BoostsMultiplyFusedScore ==
  IsFusedHybridCall =>
    LET expected(f) == RMul(f.score, StatedBoost(f.path, ret.query))
    IN /\ Len(ret.boosted) = Len(ret.fused)
       /\ \A i \in 1..Len(ret.fused) :
            /\ ret.boosted[i].score = expected(ret.fused[i])
            /\ ret.boosted[i].id = ret.fused[i].id
            /\ StatedBoost(ret.fused[i].path, ret.query) = One
                 => ret.boosted[i].score = ret.fused[i].score
       /\ \A i \in 1..Len(ret.out) :
            \E j \in 1..Len(ret.fused) :
              /\ ret.fused[j].id = ret.out[i].id
              /\ ret.out[i].score =
                   RDiv(expected(ret.fused[j]),
                        Largest({expected(ret.fused[h]) : h \in 1..Len(ret.fused)}))

\* The query "API auth" fused all three documents: api/auth.md matches both
\* keywords (1.15 * 1.15), API/README.md one keyword and the index rule
\* (1.15 * 1.25), howto/index.md the index rule alone.
C6_Witness ==
  /\ IsFusedHybridCall
  /\ ret.query = <<WordAPI, WordAuth>>
  /\ Len(ret.fused) = 3
  /\ \E i \in 1..3 :
       /\ ret.fused[i].id = ChunkAuth.id
       /\ ret.boosted[i].score = RMul(ret.fused[i].score, Rat(13225, 10000))
  /\ \E i \in 1..3 :
       /\ ret.fused[i].id = ChunkReadme.id
       /\ ret.boosted[i].score = RMul(ret.fused[i].score, Rat(14375, 10000))
  /\ \E i \in 1..3 :
       /\ ret.fused[i].id = ChunkHowto.id
       /\ ret.boosted[i].score = RMul(ret.fused[i].score, Rat(125, 100))

\* ------------------------------------------------------------------------
\* C7
\* ------------------------------------------------------------------------

SourceRecordsRank(result, src, list) ==
  /\ src \in DOMAIN result.sources <=> Positions(list, result.id) # {}
  /\ src \in DOMAIN result.sources => result.sources[src] \in Positions(list, result.id)

SourcesRecordRanks(out, fulltextResults, vectorResults) ==
  \A i \in 1..Len(out) :
    /\ SourceRecordsRank(out[i], "fulltext", fulltextResults)
    /\ SourceRecordsRank(out[i], "vector", vectorResults)

\* C8: in every result of reciprocalRankFusion and in every hybridSearch result
\* that carries `sources` (hybrid and semantic modes), sources.fulltext and
\* sources.vector are present exactly when the document appeared in that
\* source's result list for the query, and equal its 1-based position there.
C8_SourcesRecordRanks ==
  /\ IsRRFCall => SourcesRecordRanks(ret.out, ret.fulltextResults, ret.vectorResults)
  /\ IsFusedHybridCall =>
       SourcesRecordRanks(ret.out, ret.fulltextResults, ret.vectorResults)
  /\ IsSemanticCall =>
       SourcesRecordRanks(ret.out, ret.fulltextResults, ret.vectorResults)

\* ------------------------------------------------------------------------
\* Queries followed step by step: vocabulary
\* ------------------------------------------------------------------------

IsQuery == ret.op = "hybridSearch" /\ "modeGiven" \in DOMAIN ret

\* ------------------------------------------------------------------------
\* C11
\* ------------------------------------------------------------------------

\* C11: a hybridSearch call that passes no `mode` runs in hybrid mode (it
\* requests a query embedding) when the engine has a vector index loaded, and
\* in fulltext mode (no embedding, the lexical search alone) otherwise.
C11_DefaultModeFollowsVectorIndex ==
  (IsQuery /\ ret.modeGiven = None) =>
    IF vectorStore # None
    THEN ret.mode = "hybrid" /\ ret.embedCalls = 1
    ELSE ret.mode = "fulltext" /\ ret.embedCalls = 0 /\ ret.lexical.state # "none"

\* ------------------------------------------------------------------------
\* C12
\* ------------------------------------------------------------------------

\* A semantic query that found no vector store.
IsSemanticWithoutStore == IsQuery /\ ret.mode = "semantic" /\ vectorStore = None

\* C12: hybridSearch in semantic mode on an engine without a vector index
\* rejects with 'Vector search not available' before any embedding request and
\* before any search; the call and the return to the caller leave the engine
\* and the index files as they were, so a later call meets the state the
\* rejected call met.
C12_SemanticWithoutIndexRejects ==
  /\ [](IsSemanticWithoutStore =>
          /\ ret.status = "error"
          /\ ret.error = "Vector search not available"
          /\ ret.embedCalls = 0 /\ ret.embedding = "none"
          /\ ret.lexical = NotCalled /\ ret.vector = NotCalled
          /\ ret.out = <<>>)
  /\ [][(IsSemanticWithoutStore \/ IsSemanticWithoutStore')
          => UNCHANGED <<engine, disk>>]_vars

\* A semantic query rejected on an engine that holds a lexical index only.
C12_Witness ==
  /\ IsSemanticWithoutStore
  /\ db # None
  /\ ret.status = "error"
  /\ ret.modeGiven = Some("semantic")

\* ------------------------------------------------------------------------
\* C13
\* ------------------------------------------------------------------------

\* A query in fulltext mode, or in hybrid mode without a vector store.
IsLexicalOnlyQuery ==
  /\ IsQuery
  /\ ret.mode = "fulltext" \/ (ret.mode = "hybrid" /\ vectorStore = None)

\* C13: hybridSearch in fulltext mode, and in hybrid mode when no vector index
\* is loaded, calls search() with the same query, packages and limit and
\* returns what search() returns: no embedding is requested, no vector search,
\* fusion, boost or normalization happens, and the outcome (result list or
\* error) is one search() itself gives for these arguments.
C13_FulltextDelegatesToSearch ==
  IsLexicalOnlyQuery =>
    /\ ret.embedCalls = 0 /\ ret.embedding = "none"
    /\ ret.vector = NotCalled
    /\ ret.lexical.call = Some(SearchCall(ret.query, ret.packages, ret.limit))
    /\ ret.fused = <<>> /\ ret.boosted = <<>>
    /\ ret.status = "ok" => ret.out = ret.fulltextResults
    /\ ret.status # "pending" =>
         [status |-> ret.status, error |-> ret.error, out |-> ret.out]
           \in SearchOutcomes(SearchCall(ret.query, ret.packages, ret.limit))

\* A hybrid query on an engine without a vector index that returned two hits
\* with the scores of the lexical search, not normalized ones.
C13_Witness ==
  /\ IsLexicalOnlyQuery
  /\ ret.modeGiven = Some("hybrid")
  /\ ret.status = "ok"
  /\ Len(ret.out) >= 2
  /\ ret.out[1].score # One

\* ------------------------------------------------------------------------
\* C14
\* ------------------------------------------------------------------------

\* C14: an engine on which neither createIndex nor a successful loadIndex has
\* completed rejects search() and hybridSearch() in every mode: an engine
\* without a database never answers a query, and only a createIndex or a
\* loadIndex that returns true gives an engine its database.
C14_NotReadyEngineRejects ==
  /\ []((db = None /\ ret.op \in {"search", "hybridSearch"}) => ret.status # "ok")
  /\ [][(db = None /\ db' # None) =>
          \/ ret'.op = "createIndex"
          \/ ret'.op = "loadIndex" /\ ret'.value = TRUE]_vars

\* ------------------------------------------------------------------------
\* C15
\* ------------------------------------------------------------------------

\* A query in hybrid mode on an engine with a vector store.
IsFusedQuery == IsQuery /\ ret.mode = "hybrid" /\ vectorStore # None

\* C15: in hybrid mode with a vector index loaded the vector search is started
\* only after the query embedding has been obtained; the lexical and the
\* vector search are started in one step, neither having answered; the fusion
\* runs only after both have answered; and when either search fails the query
\* does not succeed and returns no partial result.
C15_SearchesJoinedAfterEmbedding ==
  /\ [](IsFusedQuery =>
          /\ ret.vector.state # "none" => ret.embedding = "resolved"
          /\ ret.lexical.state = "none" <=> ret.vector.state = "none"
          /\ (ret.status = "ok" \/ ret.fused # <<>>) =>
               ret.lexical.state = "done" /\ ret.vector.state = "done"
          /\ "failed" \in {ret.lexical.state, ret.vector.state} =>
               ret.status # "ok" /\ ret.out = <<>> /\ ret.fused = <<>>)
  /\ [][(IsFusedQuery' /\ IsFusedQuery /\ ret.vector.state = "none"
           /\ ret'.vector.state # "none") =>
          /\ ret'.vector.state = "pending"
          /\ ret'.lexical.state \in {"pending", "failed"}]_vars

\* A hybrid query rejected because the vector search failed after the lexical
\* search had answered.
C15_Witness ==
  /\ IsFusedQuery
  /\ ret.lexical.state = "done"
  /\ Len(ret.fulltextResults) > 0
  /\ ret.vector.state = "failed"
  /\ ret.status = "error"

\* ------------------------------------------------------------------------
\* C16
\* ------------------------------------------------------------------------

IsEmbeddingFailure == IsQuery /\ ret.embedding = "rejected"

\* C16: when the embedding provider fails during a semantic or hybrid query,
\* the query rejects with the provider's error, the provider has been called
\* exactly once, no search is started and no result is returned; the call and
\* the return to the caller leave the lexical index, the vector store, the
\* stored provider and the index files as they were.
C16_ProviderErrorFailsOneQuery ==
  /\ [](IsEmbeddingFailure =>
          /\ ret.mode \in {"semantic", "hybrid"}
          /\ ret.status = "error"
          /\ ret.error = "embedding provider error"
          /\ ret.embedCalls = 1
          /\ ret.lexical = NotCalled /\ ret.vector = NotCalled
          /\ ret.out = <<>> /\ ret.fulltextResults = <<>>)
  /\ []((IsQuery /\ ret.embedding # "none") => ret.embedCalls = 1)
  /\ [][(IsEmbeddingFailure \/ IsEmbeddingFailure')
          => UNCHANGED <<engine, disk>>]_vars

\* A hybrid query rejected by a provider error.
C16_Witness ==
  /\ IsEmbeddingFailure
  /\ ret.mode = "hybrid"
  /\ ret.status = "error"

\* ------------------------------------------------------------------------
\* C17
\* ------------------------------------------------------------------------

\* C17: when hybridSearch is given a non-empty `packages` list, in any mode,
\* every result it returns has its package in the list.
C17_ResultsWithinPackages ==
  (IsQuery /\ ret.status = "ok" /\ ret.packages # None /\ ret.packages # Some({})) =>
    \A i \in 1..Len(ret.out) : ret.out[i].package \in ret.packages[1]

\* ------------------------------------------------------------------------
\* C18
\* ------------------------------------------------------------------------

\* C18: whenever a semantic or hybrid query has obtained its query embedding,
\* the provider that produced it is the provider recorded in the metadata of
\* the vector index, after any sequence of index builds and loadIndex calls.
C18_QueryProviderIsIndexProvider ==
  (IsQuery /\ ret.embedding = "resolved") =>
    /\ vectorMetaFile # None
    /\ ret.embedProvider = Some(vectorMetaFile[1].embedding.provider)

\* ------------------------------------------------------------------------
\* Properties: the chunker
\* ------------------------------------------------------------------------

IsChunkFileCall == ret.op = "chunkFile" /\ ret.status = "ok"

\* C19: every chunk that chunkFile returns has a trimmed content of at least
\* 100 characters, whether its section was closed by a level-2 heading, was
\* the last of the body, or was cut out of a section of more than 500
\* characters by the paragraph re-split. The chunk of the whole-document
\* fallback, which the claim leaves out, meets the minimum as well.
C19_ChunksMeetMinimumSize ==
  IsChunkFileCall =>
    \A i \in 1..Len(ret.value) : StrLen(Trim(ret.value[i].content)) >= 100

\* A section under a level-2 heading, longer than 500 characters, that the
\* re-split cut in two.
C19_Witness ==
  /\ IsChunkFileCall
  /\ Len(ret.value) = 2
  /\ ret.value[1].headings = <<ret.title, "Setup">>
  /\ ret.value[2].headings = <<ret.title, "Setup">>

NoLevel2Heading(body) == \A i \in 1..Len(body) : body[i].level # 2

\* A document with no level-2 heading whose trimmed body has 100 characters
\* or more.
IsSingleSectionDocument ==
  /\ IsChunkFileCall
  /\ NoLevel2Heading(ret.body)
  /\ StrLen(Trim(ret.body)) >= 100

\* C20, as stated: a document with no level-2 heading and a trimmed body of
\* at least 100 characters gives exactly one chunk, headed [title], whatever
\* the length and the paragraphs of the body.
C20_ExactlyOneChunk ==
  IsSingleSectionDocument =>
    /\ Len(ret.value) = 1
    /\ ret.value[1].headings = <<ret.title>>

\* C20, amended: such a document gives at least one chunk and every chunk is
\* headed [title]; there is exactly one chunk when the trimmed body has at
\* most 500 characters.
C20_OneChunkUpToTargetSize ==
  IsSingleSectionDocument =>
    /\ Len(ret.value) >= 1
    /\ \A i \in 1..Len(ret.value) : ret.value[i].headings = <<ret.title>>
    /\ StrLen(Trim(ret.body)) <= 500 => Len(ret.value) = 1

\* A body of two paragraphs and more than 500 characters gives two chunks.
C20_Witness ==
  /\ IsSingleSectionDocument
  /\ StrLen(Trim(ret.body)) > 500
  /\ Len(ret.value) = 2
  /\ \A i \in 1..2 : ret.value[i].headings = <<ret.title>>

IsChunkPackageCall == ret.op = "chunkPackage" /\ ret.status = "ok"

DistinctIds(chunks) ==
  \A i, j \in 1..Len(chunks) : i # j => chunks[i].id # chunks[j].id

\* C21: the chunks that chunkFile returns carry the ids '<relative path>#0',
\* '<relative path>#1', ... in the order of the list, so they are pairwise
\* distinct; the chunks that one chunkPackage call returns have pairwise
\* distinct ids.
C21_ChunkIdsNumberedAndDistinct ==
  /\ IsChunkFileCall =>
       /\ \A i \in 1..Len(ret.value) :
            ret.value[i].id = ret.relativePath \o "#" \o ToString(i - 1)
       /\ DistinctIds(ret.value)
  /\ IsChunkPackageCall => DistinctIds(ret.value)

\* A package of two files, 'a.md' and 'a.md#1.md', of two chunks each.
C21_Witness ==
  /\ IsChunkPackageCall
  /\ Len(ret.value) = 4
  /\ {ret.value[i].path : i \in 1..4} = {"a.md", "a.md#1.md"}

\* The chunks of a list that come from one file, in the order of the list.
RECURSIVE ChunksOfPath(_, _)
ChunksOfPath(chunks, path) ==
  IF chunks = <<>> THEN <<>>
  ELSE (IF Head(chunks).path = path THEN <<Head(chunks)>> ELSE <<>>)
       \o ChunksOfPath(Tail(chunks), path)

\* C22: a chunkPackage call over a directory with a file whose chunkFile
\* throws does not throw; it returns no chunk of such a file, and for every
\* other file exactly the chunks of chunkFile, the files in directory order.
C22_FailedFileIsSkipped ==
  (IsChunkPackageCall /\ ret.packageDir # None) =>
    LET files == ret.packageDir[1] IN
    /\ \A i \in 1..Len(files) :
         ChunksOfPath(ret.value, files[i].path) =
           IF files[i].text = None THEN <<>>
           ELSE chunkFile(files[i].path, ret.packageAlias,
                          files[i].text[1].frontmatterTitle,
                          files[i].text[1].body)
    /\ \A k \in 1..Len(ret.value) :
         \E i \in 1..Len(files) : ret.value[k].path = files[i].path
    /\ \A k, l \in 1..Len(ret.value) : \A i, j \in 1..Len(files) :
         (k < l /\ ret.value[k].path = files[i].path
                /\ ret.value[l].path = files[j].path) => i <= j

\* The first file of the package fails, the second gives its chunks.
C22_Witness ==
  /\ IsChunkPackageCall
  /\ ret.packageDir # None
  /\ Len(ret.packageDir[1]) = 2
  /\ ret.packageDir[1][1].text = None
  /\ Len(ret.value) = 2

\* How many lines of a text are headings of the given level.
RECURSIVE CountLevel(_, _)
CountLevel(lines, level) ==
  IF lines = <<>> THEN 0
  ELSE (IF Head(lines).level = level THEN 1 ELSE 0)
       + CountLevel(Tail(lines), level)

RECURSIVE CountLevelInChunks(_, _)
CountLevelInChunks(chunks, level) ==
  IF chunks = <<>> THEN 0
  ELSE CountLevel(Head(chunks).content, level)
       + CountLevelInChunks(Tail(chunks), level)

HeadingTexts(lines, levels) ==
  {lines[i].text : i \in {k \in 1..Len(lines) : lines[k].level \in levels}}

\* C30: every chunk of chunkFile has a heading path of one to three entries
\* that starts with the document title. A level-2 heading closes the section:
\* no chunk holds a level-2 heading line in its content, and the second entry
\* of a path is the text of a level-2 heading of the body. A level-3+ heading
\* stays in its section: the third entry of a path is the text of a level-3+
\* heading that the chunk's section holds, hence of the body. The first
\* level-1 heading of the body is in no chunk's content.
C30_HeadingPathsFollowSections ==
  IsChunkFileCall =>
    /\ \A i \in 1..Len(ret.value) :
         LET chunk == ret.value[i] IN
         /\ Len(chunk.headings) \in 1..3
         /\ chunk.headings[1] = ret.title
         /\ CountLevel(chunk.content, 2) = 0
         /\ Len(chunk.headings) >= 2 =>
              chunk.headings[2] \in HeadingTexts(ret.body, {2})
         /\ Len(chunk.headings) = 3 =>
              chunk.headings[3] \in HeadingTexts(ret.body, 3..6)
    /\ CountLevel(ret.body, 1) > 0 =>
         CountLevelInChunks(ret.value, 1) < CountLevel(ret.body, 1)

\* ------------------------------------------------------------------------
\* Properties: loading and building the index
\* ------------------------------------------------------------------------

\* C28: a loadIndex call that returns false leaves the database, the metadata
\* and the vector store of the engine as they were before the call, so a new
\* engine stays uninitialized and an engine with an index keeps it; and in
\* every state an engine with a vector store has a database.
C28_FailedLoadLeavesEngine ==
  /\ [](vectorStore # None => db # None)
  /\ [][(ret'.op = "loadIndex" /\ ret.op = "idle" /\ ret'.value = FALSE)
          => UNCHANGED <<db, metadata, vectorStore>>]_vars

IsIndexRun == ret.op = "indexSearchCommand"

\* C23: a run of indexSearchCommand whose packages give no chunk at all
\* throws, and leaves the index file, the vector table and the vector
\* metadata as they were.
C23_NoChunksAbortsBeforeIndexing ==
  /\ [](IsIndexRun /\ ret.config # None /\ CollectChunks(ret.config[1]) = <<>>
          => ret.status = "error")
  /\ [][(IsIndexRun' /\ ret.op = "idle" /\ ret'.config # None
           /\ CollectChunks(ret'.config[1]) = <<>>)
          => UNCHANGED disk]_vars

\* A semantic run over two empty packages, with index files on disk.
C23_Witness ==
  /\ IsIndexRun
  /\ ret.config # None
  /\ Len(ret.config[1]) = 2
  /\ CollectChunks(ret.config[1]) = <<>>
  /\ ret.semantic
  /\ indexFile # None
  /\ vectorDir # None

IdsOf(rows) == {rows[i].id : i \in 1..Len(rows)}

\* C29: whenever a vector table is on disk, its chunk ids are those of the
\* stored lexical index and the vector metadata is there and counts the rows
\* of the table; and an engine that loadIndex gave a vector store has the
\* same ids in its database and in its vector table.
C29_VectorIndexMatchesLexicalIndex ==
  /\ vectorDir # None =>
       /\ indexFile # None
       /\ IdsOf(vectorDir[1]) = IdsOf(indexFile[1].data)
       /\ vectorMetaFile # None
       /\ vectorMetaFile[1].chunkCount = Len(vectorDir[1])
  /\ (ret.op = "loadIndex" /\ vectorStore # None) =>
       /\ db # None
       /\ IdsOf(vectorStore[1].table) = IdsOf(db[1])

\* A step in which a search() call made during createIndex gets its answer.
AnswerDuringBuild ==
  /\ IsBuilding
  /\ IsBuilding'
  /\ Len(ret'.answers) = Len(ret.answers) + 1

\* C27: a search() call that interleaves with a running createIndex is
\* rejected, or is answered from a complete index: the index the engine held
\* before the new database was assigned, or the database holding every chunk
\* of the list being indexed.
C27_NoAnswerFromPartialIndex ==
  [][(AnswerDuringBuild /\ ret'.answers[Len(ret'.answers)].status = "ok")
       => \/ ret.phase = "create"
          \/ db = Some(ret.chunks)]_vars

\* ------------------------------------------------------------------------
\* Properties: updating packages
\* ------------------------------------------------------------------------

IsUpdateCall == ret.op = "updateCommand"

\* The packages a call is to update whose working tree has uncommitted changes.
DirtyPackages ==
  {a \in Packages :
     /\ ret.alias = None \/ ret.alias[1] = a
     /\ ret.project.trees[a].exists
     /\ ret.project.trees[a].git
     /\ ret.project.trees[a].dirty}

ResultOf(results, a) ==
  {results[i].status : i \in {k \in 1..Len(results) : results[k].alias = a}}

IsRegistryCall == ret.op = "fetchRegistryWithImports"

\* A URL without the slash at its end, if it has one.
WithoutOneSlash(url) ==
  IF Len(url) > 0 /\ url[Len(url)] = "/" THEN SubSeq(url, 1, Len(url) - 1)
  ELSE url

\* The imports of a call that were entered below it in the tree.
ImportCalls == DOMAIN ret.calls \ {<<>>}

\* C26: within one top-level call of fetchRegistryWithImports no two fetches
\* are for URLs that are equal once a slash at the end is removed, and no
\* fetch is made at depth maxDepth or deeper; an import whose fetch fails
\* counts as an empty registry and the call rejects only if the fetch of its
\* own URL fails; and every call that was started settles, on cyclic import
\* graphs too.
C26_ImportsFetchedOnceAndTerminate ==
  /\ [](IsRegistryCall =>
          /\ \A i, j \in 1..Len(ret.fetches) :
               i # j => WithoutOneSlash(ret.fetches[i].url)
                          # WithoutOneSlash(ret.fetches[j].url)
          /\ \A i \in 1..Len(ret.fetches) : ret.fetches[i].depth < ret.maxDepth
          /\ \A id \in ImportCalls :
               ret.calls[id].failed => ret.calls[id].value = EmptyRegistry
          /\ ret.status = "error" => ret.calls[<<>>].failed)
  /\ (IsRegistryCall /\ ret.status = "pending")
       ~> (IsRegistryCall /\ ret.status # "pending")

\* A call on a cyclic graph has resolved although the fetch of an import
\* failed, and an import was skipped because its URL had been visited.
C26_Witness ==
  /\ IsRegistryCall
  /\ ret.status = "ok"
  /\ \E id \in ImportCalls : ret.calls[id].failed
  /\ \E id \in ImportCalls :
       /\ ~ret.calls[id].failed
       /\ ret.calls[id].depth < ret.maxDepth
       /\ \A i \in 1..Len(ret.fetches) : ret.fetches[i].url # ret.calls[id].url

\* ------------------------------------------------------------------------
\* Properties: saving and loading
\* ------------------------------------------------------------------------

====
